---- MODULE Spec2Model ----
(***************************************************************************)
(* A model of the GLPI MCP server's security-gated file access layer       *)
(* (tools/utils.py, config/settings.py, tools/folder_tools.py) and of its  *)
(* batch contract pipeline (tools/batch_tools.py and what it calls).       *)
(*                                                                         *)
(* Text.  A Python str is modelled as a sequence of symbols; a symbol is a *)
(* TLA+ string standing for the characters it spells ("/", ".", "a",       *)
(* "pdf", "denied"), and the str is the concatenation of its symbols.      *)
(* None and the empty str are both <<>>: the code only ever tests such     *)
(* values for truthiness (`if path:`, `path or "ALL_ROOTS"`).              *)
(***************************************************************************)
EXTENDS Integers, Sequences, FiniteSets, TLC

VARIABLES
    fs,          \* the filesystem: canonical absolute path -> node
    cwd,         \* the process's working directory (a canonical path)
    settings,    \* the Settings object (config/settings.py)
    g_path,      \* PathGuard driver: the path string under test
    g_result,    \* PathGuard driver: outcome of is_path_allowed(g_path)
    glpi,        \* the remote GLPI system: its availability and its contracts
    batch,       \* the tool_batch_contracts invocations: run id -> frame
    call         \* Tools driver: the tool or function called, its argument, its outcome

vars == <<fs, cwd, settings, g_path, g_result, glpi, batch, call>>

----------------------------------------------------------------------------
(* Bounds of the model *)

\* longest path string the PathGuard driver submits, in symbols
MaxPathLen == 4
\* nesting depth of symbolic-link resolution before a loop is reported;
\* the filesystems below hold at most two links, so any deeper nesting
\* re-enters a link that is still being resolved
LinkFuel == 3

----------------------------------------------------------------------------
(* Text helpers *)

Slash == "/"
Dot == <<".">>
DotDot == <<".", ".">>

\* s[i..] for Python's s[i:]
Drop(s, n) == SubSeq(s, n + 1, Len(s))

\* str.startswith
StartsWith(s, prefix) ==
    /\ Len(prefix) <= Len(s)
    /\ SubSeq(s, 1, Len(prefix)) = prefix

\* `needle in s` for Python strs
Contains(s, needle) ==
    \E i \in 0..(Len(s) - Len(needle)) : SubSeq(s, i + 1, i + Len(needle)) = needle

\* every str over alphabet A of length at most n
RECURSIVE StrsUpTo(_, _)
StrsUpTo(A, n) ==
    IF n = 0 THEN {<<>>}
    ELSE LET shorter == StrsUpTo(A, n - 1)
         IN  shorter \cup {Append(s, c) : s \in shorter, c \in A}

\* s.replace(old, new, 1) for an s that starts with old
ReplacePrefix(s, old, new) == new \o Drop(s, Len(old))

\* str.lower: the symbols that spell upper-case letters, and their lower case
LowerSym(c) == IF c = "PDF" THEN "pdf" ELSE IF c = "Denied" THEN "denied" ELSE c
Lower(s) == [i \in 1..Len(s) |-> LowerSym(s[i])]

\* every ordering of the finite set S, as sequences
Orderings(S) ==
    {o \in [1..Cardinality(S) -> S] : \A i, j \in 1..Cardinality(S) : o[i] = o[j] => i = j}

\* dict.get(k, default)
Get(d, k, default) == IF k \in DOMAIN d THEN d[k] ELSE default

\* the non-empty components of a path string, split at "/"
RECURSIVE SplitFrom(_, _, _)
SplitFrom(s, i, cur) ==
    LET done == IF cur = <<>> THEN <<>> ELSE <<cur>>
    IN  IF i > Len(s) THEN done
        ELSE IF s[i] = Slash THEN done \o SplitFrom(s, i + 1, <<>>)
        ELSE SplitFrom(s, i + 1, Append(cur, s[i]))

Components(s) == SplitFrom(s, 1, <<>>)

IsAbsolute(s) == Len(s) > 0 /\ s[1] = Slash

\* str() of an absolute path given as its components
RECURSIVE JoinParts(_)
JoinParts(parts) ==
    IF parts = <<>> THEN <<>>
    ELSE <<Slash>> \o Head(parts) \o JoinParts(Tail(parts))

PathStr(parts) == IF parts = <<>> THEN <<Slash>> ELSE JoinParts(parts)

----------------------------------------------------------------------------
(* The filesystem, as the operating system presents it to pathlib *)

DirNode == [kind |-> "dir", target |-> <<>>]
FileNode == [kind |-> "file", target |-> <<>>]
LinkNode(t) == [kind |-> "link", target |-> t]

Parent(parts) == IF parts = <<>> THEN <<>> ELSE SubSeq(parts, 1, Len(parts) - 1)

\* The kernel's path walk (stat / lstat): from directory cur along rest,
\* following the last component's link only when follow_last.
RECURSIVE Walk(_, _, _, _, _)
Walk(f, cur, rest, follow_last, fuel) ==
    IF rest = <<>> THEN [err |-> "none", path |-> cur]
    ELSE IF cur \notin DOMAIN f THEN [err |-> "ENOENT", path |-> cur]
    ELSE IF f[cur].kind # "dir" THEN [err |-> "ENOTDIR", path |-> cur]
    ELSE LET name == Head(rest)
             tail == Tail(rest)
             new == Append(cur, name)
         IN  IF name = Dot THEN Walk(f, cur, tail, follow_last, fuel)
             ELSE IF name = DotDot THEN Walk(f, Parent(cur), tail, follow_last, fuel)
             ELSE IF new \notin DOMAIN f THEN [err |-> "ENOENT", path |-> new]
             ELSE IF f[new].kind = "link" /\ (tail # <<>> \/ follow_last)
             THEN IF fuel = 0 THEN [err |-> "ELOOP", path |-> new]
                  ELSE LET t == f[new].target
                           r == Walk(f, IF IsAbsolute(t) THEN <<>> ELSE cur,
                                     Components(t), TRUE, fuel - 1)
                       IN  IF r.err # "none" THEN r
                           ELSE Walk(f, r.path, tail, follow_last, fuel)
             ELSE Walk(f, new, tail, follow_last, fuel)

\* str(Path(s)): pathlib drops empty and "." components when it parses s
RECURSIVE DropDots(_)
DropDots(parts) ==
    IF parts = <<>> THEN <<>>
    ELSE IF Head(parts) = Dot THEN DropDots(Tail(parts))
    ELSE <<Head(parts)>> \o DropDots(Tail(parts))

Path_parts(s) == DropDots(Components(s))

\* os.stat / os.lstat of Path(s)
os_stat(f, wd, s) ==
    Walk(f, IF IsAbsolute(s) THEN <<>> ELSE wd, Path_parts(s), TRUE, LinkFuel)
os_lstat(f, wd, s) ==
    Walk(f, IF IsAbsolute(s) THEN <<>> ELSE wd, Path_parts(s), FALSE, LinkFuel)

\* Path.exists(): stat succeeded; ENOENT, ENOTDIR and ELOOP are ignored errors
Path_exists(f, wd, s) == os_stat(f, wd, s).err = "none"

\* Path.is_symlink(): lstat succeeded and the node is a link
Path_is_symlink(f, wd, s) ==
    LET is_link(r) == r.err = "none" /\ f[r.path].kind = "link"
    IN  is_link(os_lstat(f, wd, s))

Path_is_dir(f, wd, s) ==
    LET is_dir(r) == r.err = "none" /\ f[r.path].kind = "dir"
    IN  is_dir(os_stat(f, wd, s))

Path_is_file(f, wd, s) ==
    LET is_file(r) == r.err = "none" /\ f[r.path].kind = "file"
    IN  is_file(os_stat(f, wd, s))

\* posixpath._joinrealpath with strict=False: missing components are kept,
\* ".." pops lexically, links are resolved; ok is FALSE on a link loop.
RECURSIVE JoinRealpath(_, _, _, _)
JoinRealpath(f, path, rest, fuel) ==
    IF rest = <<>> THEN [ok |-> TRUE, path |-> path]
    ELSE LET name == Head(rest)
             tail == Tail(rest)
             new == Append(path, name)
         IN  IF name = Dot THEN JoinRealpath(f, path, tail, fuel)
             ELSE IF name = DotDot THEN JoinRealpath(f, Parent(path), tail, fuel)
             ELSE IF new \in DOMAIN f /\ f[new].kind = "link"
             THEN IF fuel = 0 THEN [ok |-> FALSE, path |-> new \o tail]
                  ELSE LET t == f[new].target
                           r == JoinRealpath(f, IF IsAbsolute(t) THEN <<>> ELSE path,
                                             Components(t), fuel - 1)
                       IN  IF ~r.ok THEN [ok |-> FALSE, path |-> r.path \o tail]
                           ELSE JoinRealpath(f, r.path, tail, fuel)
             ELSE JoinRealpath(f, new, tail, fuel)

\* Path.resolve(): the canonical absolute path, as components; a link loop
\* raises RuntimeError (ok = FALSE)
Path_resolve(f, wd, s) ==
    JoinRealpath(f, IF IsAbsolute(s) THEN <<>> ELSE wd, Path_parts(s), LinkFuel)

\* a containment test on the path strings instead of on the components
is_relative_to_startswith(parts, root) == StartsWith(PathStr(parts), PathStr(root))

\* PurePath.is_relative_to for absolute paths: component-wise prefix
is_relative_to(parts, root) ==
    /\ Len(root) <= Len(parts)
    /\ SubSeq(parts, 1, Len(root)) = root

\* PurePath.name
Path_name(s) ==
    LET last_of(parts) == IF parts = <<>> THEN <<>> ELSE parts[Len(parts)]
    IN  last_of(Path_parts(s))

\* PurePath.suffix: from the last "." of the name, unless the name starts
\* or ends with it
Path_suffix(s) ==
    LET suffix_from(name, last) ==
            IF last > 1 /\ last < Len(name) THEN Drop(name, last - 1) ELSE <<>>
        rfind(name, dots) ==
            suffix_from(name, IF dots = {} THEN 0
                              ELSE CHOOSE i \in dots : \A j \in dots : j <= i)
        suffix_of(name) == rfind(name, {i \in 1..Len(name) : name[i] = "."})
    IN  suffix_of(Path_name(s))

\* suffix.lower().lstrip(".")
RECURSIVE lstrip_dots(_)
lstrip_dots(s) == IF s # <<>> /\ Head(s) = "." THEN lstrip_dots(Tail(s)) ELSE s

lower_ext(s) == lstrip_dots(Lower(Path_suffix(s)))

\* the names in directory d (a canonical path)
Children(f, d) == {q[Len(q)] : q \in {x \in DOMAIN f : x # <<>> /\ Parent(x) = d}}

----------------------------------------------------------------------------
(* Exceptions and call outcomes *)

\* An exception is its Python type, the message it was built from (id names
\* the literal text, arg the str interpolated into it); type "none" = no exception.
NoExc == [type |-> "none", id |-> "none", arg |-> <<>>]
Exc(type, id, arg) == [type |-> type, id |-> id, arg |-> arg]

\* the outcome of a call: a returned value, or a raised exception
Return(v) == [exc |-> NoExc, val |-> v]
Raise(e) == [exc |-> e, val |-> FALSE]
Raised(r) == r.exc.type # "none"

\* The words the code searches messages for, against each message's literal
\* text; all are searched in the lower-cased message but "Security error",
\* which is matched as written.
\*   traversal     "Security error: Path traversal attempt detected in '{arg}'"
\*   no_roots      "Security error: No allowed roots configured on server"
\*   symlink       "Security error: Path '{arg}' is a symbolic link, which is not allowed"
\*   outside       "Security error: Path '{arg}' is outside of all allowed root directories"
\*   root_dotdot   "Security error: Allowed root path '{arg}' cannot contain '..'"
\*   root_relative "Security error: Allowed root path '{arg}' must be an absolute path"
\*   symlink_loop  "Symlink loop from {arg}"                               (pathlib)
\*   denied        "Access to path '{arg}' is denied. Check allowed roots."
\*   path_not_found "Path not found: {arg}"
\*   not_directory "Path is not a directory: {arg}"
\*   file_not_found "File not found: {arg}"
\*   ext_not_allowed "File extension '{arg}' is not allowed. Allowed: [...]"
\*   unsupported_type "Unsupported file type: {arg}"
\*   unreadable    the parsing library's error for a file it cannot read
\*   llm_status    "<Provider> API Error: {response text}"
\*   llm_transport httpx's timeout and connection errors
\*   llm_body      a 200 reply whose body or content is not the expected JSON
\*   validation    pydantic's "validation error for ProcessedContract ..."
\*   missing_name  "create_glpi_contract() missing 1 required positional argument: 'name'"
\*   multiple_file_path "... got multiple values for keyword argument 'file_path'"
\*   session_failed "Session initialization failed: {response text}"
\*   contract_not_found "Contract with ID {id} not found in GLPI."
\*   unbound_doc_manager "cannot access local variable 'doc_manager' ..."
\*   no_upload_file "'GLPIAPIClient' object has no attribute 'upload_file'"
\*   no_such_file  "[Errno 2] No such file or directory: '{arg}'"
\*   file_exists   "[Errno 17] File exists: '{arg}'"
\*   os_error      the operating system's error for a move it cannot do
\*   permission_listing "Permission denied listing items in: {arg}"
LiteralWords(id) ==
    CASE id = "traversal" -> {"Security error"}
      [] id = "no_roots" -> {"Security error"}
      [] id = "symlink" -> {"Security error", "not allowed"}
      [] id = "outside" -> {"Security error"}
      [] id = "root_dotdot" -> {"Security error"}
      [] id = "root_relative" -> {"Security error"}
      [] id = "denied" -> {"denied"}
      [] id = "path_not_found" -> {"not found"}
      [] id = "file_not_found" -> {"not found"}
      [] id = "ext_not_allowed" -> {"not allowed", "extension"}
      [] id = "contract_not_found" -> {"not found"}
      [] OTHER -> {}

\* `word in str(e)`: in the literal text, or spelled by a symbol of the
\* interpolated str
MsgHas(e, word) == word \in LiteralWords(e.id) \/ Contains(e.arg, <<word>>)

\* `word in str(e).lower()`
LowerMsgHas(e, word) == word \in LiteralWords(e.id) \/ Contains(Lower(e.arg), <<word>>)

\* a message: the literal text's id and the str interpolated into it
Msg(id, arg) == [id |-> id, arg |-> arg]
\* str(e)
MsgOf(e) == Msg(e.id, e.arg)

----------------------------------------------------------------------------
(* config/settings.py *)

\* Settings.allowed_roots_list.  glpi_allowed_roots is held as the sequence
\* of its comma-separated items, stripped, the empty ones dropped.
RECURSIVE allowed_roots_from(_, _, _, _)
allowed_roots_from(f, wd, items, paths) ==
    IF items = <<>> THEN Return(paths)
    ELSE LET clean_path == Head(items)
             resolved(p) ==
                 IF ~p.ok
                 THEN Raise(Exc("RuntimeError", "symlink_loop", clean_path))
                 ELSE allowed_roots_from(f, wd, Tail(items), Append(paths, p.path))
         IN  IF Contains(clean_path, DotDot)
             THEN Raise(Exc("ValueError", "root_dotdot", clean_path))
             ELSE IF ~IsAbsolute(clean_path)
             THEN Raise(Exc("ValueError", "root_relative", clean_path))
             ELSE resolved(Path_resolve(f, wd, clean_path))

allowed_roots_list(f, wd, st) == allowed_roots_from(f, wd, st.glpi_allowed_roots, <<>>)

\* Settings.folder_success_path / folder_errores_path, as the str() the
\* callers take of it: <<>> for None; a folder that is a link loop raises
folder_path(f, wd, clean_path) ==
    IF clean_path = <<>> \/ ~IsAbsolute(clean_path) THEN Return(<<>>)
    ELSE LET resolved(p) ==
                 IF p.ok THEN Return(PathStr(p.path))
                 ELSE Raise(Exc("RuntimeError", "symlink_loop", clean_path))
         IN  resolved(Path_resolve(f, wd, clean_path))

folder_success_path(f, wd, st) == folder_path(f, wd, st.glpi_folder_success)
folder_errores_path(f, wd, st) == folder_path(f, wd, st.glpi_folder_errores)

\* Settings.allowed_extensions_list
allowed_extensions_list(st) ==
    IF st.glpi_allowed_extensions = <<>>
    THEN {<<"pdf">>, <<"txt">>, <<"doc">>, <<"docx">>}
    ELSE {lstrip_dots(Lower(st.glpi_allowed_extensions[i])) :
              i \in 1..Len(st.glpi_allowed_extensions)}

\* Settings.host_allowed_roots_list
host_allowed_roots_list(f, wd, st) ==
    IF st.glpi_host_allowed_roots = <<>>
    THEN LET as_strs(roots) ==
                 IF Raised(roots) THEN roots
                 ELSE Return([i \in 1..Len(roots.val) |-> PathStr(roots.val[i])])
         IN  as_strs(allowed_roots_list(f, wd, st))
    ELSE Return(st.glpi_host_allowed_roots)

\* Settings.host_folder_success / host_folder_errores
host_folder_success(f, wd, st) ==
    IF st.glpi_host_folder_success # <<>> THEN Return(st.glpi_host_folder_success)
    ELSE folder_success_path(f, wd, st)

host_folder_errores(f, wd, st) ==
    IF st.glpi_host_folder_errores # <<>> THEN Return(st.glpi_host_folder_errores)
    ELSE folder_errores_path(f, wd, st)

----------------------------------------------------------------------------
(* tools/utils.py: path translation *)

\* the loop over zip(from_roots, to_roots): the first pair whose from-root is
\* a string prefix of p rewrites it; p is returned as it is without a match
RECURSIVE translate_by_roots(_, _, _)
translate_by_roots(p, from_roots, to_roots) ==
    IF from_roots = <<>> \/ to_roots = <<>> THEN p
    ELSE IF StartsWith(p, Head(from_roots))
    THEN ReplacePrefix(p, Head(from_roots), Head(to_roots))
    ELSE translate_by_roots(p, Tail(from_roots), Tail(to_roots))

to_host_path(f, wd, st, internal_path) ==
    LET translated(r, int_success, int_errores, host_success, host_errores,
                   roots, host_roots) ==
            LET p == PathStr(r.path)
            IN  IF ~r.ok THEN Raise(Exc("RuntimeError", "symlink_loop", internal_path))
                ELSE IF Raised(int_success) THEN int_success
                ELSE IF Raised(int_errores) THEN int_errores
                ELSE IF int_success.val # <<>> /\ StartsWith(p, int_success.val)
                THEN Return(ReplacePrefix(p, int_success.val, host_success.val))
                ELSE IF int_errores.val # <<>> /\ StartsWith(p, int_errores.val)
                THEN Return(ReplacePrefix(p, int_errores.val, host_errores.val))
                ELSE IF Raised(roots) THEN roots
                ELSE IF Raised(host_roots) THEN host_roots
                ELSE Return(translate_by_roots(
                         p, [i \in 1..Len(roots.val) |-> PathStr(roots.val[i])],
                         host_roots.val))
    IN  translated(Path_resolve(f, wd, internal_path),
                   folder_success_path(f, wd, st), folder_errores_path(f, wd, st),
                   host_folder_success(f, wd, st), host_folder_errores(f, wd, st),
                   allowed_roots_list(f, wd, st), host_allowed_roots_list(f, wd, st))

to_internal_path(f, wd, st, h) ==
    LET translated(host_success, host_errores, int_success, int_errores,
                   roots, host_roots) ==
            IF Raised(host_success) THEN host_success
            ELSE IF Raised(host_errores) THEN host_errores
            ELSE IF host_success.val # <<>> /\ StartsWith(h, host_success.val)
            THEN IF Raised(int_success) THEN int_success
                 ELSE Return(ReplacePrefix(h, host_success.val,
                          IF int_success.val # <<>> THEN int_success.val
                          ELSE host_success.val))
            ELSE IF host_errores.val # <<>> /\ StartsWith(h, host_errores.val)
            THEN IF Raised(int_errores) THEN int_errores
                 ELSE Return(ReplacePrefix(h, host_errores.val,
                          IF int_errores.val # <<>> THEN int_errores.val
                          ELSE host_errores.val))
            ELSE IF Raised(roots) THEN roots
            ELSE IF Raised(host_roots) THEN host_roots
            ELSE Return(translate_by_roots(
                     h, host_roots.val,
                     [i \in 1..Len(roots.val) |-> PathStr(roots.val[i])]))
    IN  translated(host_folder_success(f, wd, st), host_folder_errores(f, wd, st),
                   folder_success_path(f, wd, st), folder_errores_path(f, wd, st),
                   allowed_roots_list(f, wd, st), host_allowed_roots_list(f, wd, st))

----------------------------------------------------------------------------
(* tools/folder_tools.py: list_folders *)

\* is_dir_accessible: an existing directory that os.access grants
is_dir_accessible(f, wd, p, access) ==
    Path_exists(f, wd, p) /\ Path_is_dir(f, wd, p) /\ access

\* one category of the answer: the host paths of the accessible folders of
\* ps, in order, and whether every folder of ps was accessible
RECURSIVE list_category(_, _, _, _, _)
list_category(f, wd, st, ps, denied) ==
    IF ps = <<>> THEN Return([paths |-> <<>>, all_ok |-> TRUE])
    ELSE LET put(host, rest) ==
                 IF Raised(host) THEN host
                 ELSE IF Raised(rest) THEN rest
                 ELSE Return([rest.val EXCEPT !.paths = <<host.val>> \o @])
             skip(rest) ==
                 IF Raised(rest) THEN rest
                 ELSE Return([rest.val EXCEPT !.all_ok = FALSE])
         IN  IF is_dir_accessible(f, wd, Head(ps), Head(ps) \notin denied)
             THEN put(to_host_path(f, wd, st, Head(ps)),
                      list_category(f, wd, st, Tail(ps), denied))
             ELSE skip(list_category(f, wd, st, Tail(ps), denied))

\* list_folders; denied is the set of folders os.access refuses
list_folders(f, wd, st, denied) ==
    LET one(folder) ==
            IF Raised(folder) THEN folder
            ELSE list_category(f, wd, st,
                               IF folder.val = <<>> THEN <<>> ELSE <<folder.val>>,
                               denied)
        answer(to_process, processed, errors) ==
            IF Raised(to_process) THEN to_process
            ELSE IF Raised(processed) THEN processed
            ELSE IF Raised(errors) THEN errors
            ELSE Return([to_process |-> to_process.val.paths,
                         processed |-> processed.val.paths,
                         errors |-> errors.val.paths,
                         success |-> /\ to_process.val.all_ok
                                     /\ processed.val.all_ok
                                     /\ errors.val.all_ok])
        sources(roots) ==
            IF Raised(roots) THEN roots
            ELSE list_category(f, wd, st,
                               [i \in 1..Len(roots.val) |-> PathStr(roots.val[i])],
                               denied)
    IN  answer(sources(allowed_roots_list(f, wd, st)),
               one(folder_success_path(f, wd, st)),
               one(folder_errores_path(f, wd, st)))

----------------------------------------------------------------------------
(* tools/utils.py: is_path_allowed *)

\* a traversal check that looks for ".." path components only
has_traversal_component(path_str) ==
    \E i \in 1..Len(Components(path_str)) : Components(path_str)[i] = DotDot

\* step 1: the traversal check on the raw string
has_traversal(path_str) == Contains(path_str, DotDot)

\* an empty roots list answered with a plain denial
no_roots_denied == Return(FALSE)

\* what is done when the roots list is empty
no_roots_outcome == Raise(Exc("ValueError", "no_roots", <<>>))

\* step 2: the symlink check on the path itself
symlink_check(f, wd, path_str) ==
    Path_exists(f, wd, path_str) /\ Path_is_symlink(f, wd, path_str)

\* step 3: the loop over the roots
in_some_root(target_path, allowed_roots) ==
    \E i \in 1..Len(allowed_roots) : is_relative_to(target_path, allowed_roots[i])

\* the body of the try block
path_check_body(f, wd, allowed_roots, path_str) ==
    IF symlink_check(f, wd, path_str)
    THEN Raise(Exc("ValueError", "symlink", path_str))
    ELSE LET contained(target_path) ==
                 IF ~target_path.ok
                 THEN Raise(Exc("RuntimeError", "symlink_loop", path_str))
                 ELSE IF in_some_root(target_path.path, allowed_roots)
                 THEN Return(TRUE)
                 ELSE Raise(Exc("ValueError", "outside", path_str))
         IN  contained(Path_resolve(f, wd, path_str))

\* the except clause: security errors are re-raised, the rest is a denial
path_check_handler(body) ==
    IF body.exc.type \in {"ValueError", "RuntimeError"}
    THEN IF body.exc.type = "ValueError" /\ MsgHas(body.exc, "Security error")
         THEN body
         ELSE Return(FALSE)
    ELSE body

is_path_allowed(f, wd, st, path_str) ==
    IF has_traversal(path_str)
    THEN Raise(Exc("ValueError", "traversal", path_str))
    ELSE LET checked(allowed_roots) ==
                 IF Raised(allowed_roots) THEN Raise(allowed_roots.exc)
                 ELSE IF allowed_roots.val = <<>> THEN no_roots_outcome
                 ELSE path_check_handler(
                          path_check_body(f, wd, allowed_roots.val, path_str))
         IN  checked(allowed_roots_list(f, wd, st))

\* a security error, as the callers and the handler recognise it
IsSecurityError(r) == r.exc.type = "ValueError" /\ MsgHas(r.exc, "Security error")

----------------------------------------------------------------------------
(* tools/utils.py: filter_kwargs, move_file_safely *)

\* the dict restricted to the keys the called function has parameters for
filter_kwargs(parameters, kwargs) ==
    [k \in (DOMAIN kwargs) \cap parameters |-> kwargs[k]]

\* the text f"{timestamp}_{random_suffix}" put before the original name
Stamp == "stamp"

\* the proper prefixes of a canonical path, and the path itself
Prefixes(parts) == {SubSeq(parts, 1, n) : n \in 0..Len(parts)}

\* Path.mkdir(parents=True, exist_ok=True) on a resolved path: possible
\* unless some prefix exists and is not a directory
mkdir_possible(f, parts) ==
    \A q \in Prefixes(parts) : q \in DOMAIN f => f[q].kind = "dir"

mkdir_parents(f, parts) ==
    [q \in (DOMAIN f) \cup Prefixes(parts) |-> IF q \in DOMAIN f THEN f[q] ELSE DirNode]

\* os.rename as shutil.move uses it for a file: the node at src (the link
\* itself when src is one) goes to dst, replacing what was there
rename(f, src, dst) ==
    [q \in ((DOMAIN f) \ {src}) \cup {dst} |-> IF q = dst THEN f[src] ELSE f[q]]

\* move_file_safely; os_ok is whether the operating system lets the rename
\* happen.  The outcome and the filesystem it leaves.
move_file_safely(f, wd, source_path, target_dir, os_ok) ==
    LET new_filename == <<Stamp, "_">> \o Path_name(source_path)
        moved(made, target_path, src) ==
            IF src.err # "none" \/ src.path = <<>>
            THEN [out |-> Raise(Exc("FileNotFoundError", "no_such_file", source_path)),
                  fs |-> made]
            ELSE IF ~os_ok
            THEN [out |-> Raise(Exc("OSError", "os_error", source_path)), fs |-> made]
            ELSE [out |-> Return(PathStr(target_path)),
                  fs |-> rename(made, src.path, target_path)]
        in_made(made, target_path) ==
            moved(made, target_path, os_lstat(made, wd, source_path))
        into(dst_dir) ==
            IF ~dst_dir.ok
            THEN [out |-> Raise(Exc("RuntimeError", "symlink_loop", target_dir)), fs |-> f]
            ELSE IF ~mkdir_possible(f, dst_dir.path)
            THEN [out |-> Raise(Exc("FileExistsError", "file_exists", target_dir)),
                  fs |-> f]
            ELSE in_made(mkdir_parents(f, dst_dir.path),
                         Append(dst_dir.path, new_filename))
    IN  into(Path_resolve(f, wd, target_dir))

----------------------------------------------------------------------------
(* tools/error_codes.py *)

ERROR_CODES(code) ==
    CASE code = 100 -> "Malformed or unreadable file"
      [] code = 101 -> "File with possible prompt injection"
      [] code = 102 -> "Extension not allowed"
      [] code = 103 -> "Read path not allowed"
      [] code = 104 -> "Path doesn't exist"
      [] OTHER -> "Unknown error"

get_error_response(code) ==
    [error_code |-> code, error_description |-> ERROR_CODES(code)]

----------------------------------------------------------------------------
(* tools/folder_tools.py: read_path_allowed *)

NoMsg == Msg("none", <<>>)

\* the dict returned: the files, and the structured error (error_code 0
\* when the dict has no "error_code" key)
ReadFiles(files) == [files |-> files, error |-> NoMsg, error_code |-> 0]
ReadError(msg, code) == [files |-> <<>>, error |-> msg, error_code |-> code]

\* the loop over p.iterdir(), names being the order the directory is read
\* in: the files appended, and the exception that ended the loop if any
RECURSIVE scan_children(_, _, _, _, _, _)
scan_children(f, wd, st, p, names, files) ==
    IF names = <<>> THEN [files |-> files, exc |-> NoExc]
    ELSE LET listed(host) ==
                 IF Raised(host) THEN [files |-> files, exc |-> host.exc]
                 ELSE scan_children(f, wd, st, p, Tail(names), Append(files, host.val))
             visit(child) ==
                 IF Path_is_file(f, wd, child)
                    /\ lower_ext(child) \in allowed_extensions_list(st)
                 THEN listed(to_host_path(f, wd, st, child))
                 ELSE scan_children(f, wd, st, p, Tail(names), files)
         IN  visit(p \o <<Slash>> \o Head(names))

\* what p.iterdir() gives in place of the names when the process may not
\* list the directory: PermissionError
IterdirDenied == <<<<"EACCES">>>>

\* the directory a path to scan names, and the loop `for p in paths_to_scan`
scanned_dir(f, wd, p) == os_stat(f, wd, p).path

\* a refused listing that ends the scan whatever was asked for
iterdir_denied_aborts(path) == TRUE

\* `if path:` in the except clause of p.iterdir(): a refused listing ends
\* the scan when a path was asked for, and is passed over otherwise
iterdir_denied(path) == path # <<>>

RECURSIVE scan_paths(_, _, _, _, _, _, _, _)
scan_paths(f, wd, st, path, paths_to_scan, order, i, files) ==
    IF i > Len(paths_to_scan) THEN Return(ReadFiles(files))
    ELSE LET p == paths_to_scan[i]
             scanned(r) ==
                 IF r.exc.type # "none" /\ path # <<>>
                 THEN Return(ReadError(Msg("scan_failed", p), 100))
                 ELSE scan_paths(f, wd, st, path, paths_to_scan, order, i + 1, r.files)
         IN  IF ~Path_is_dir(f, wd, p)
             THEN scan_paths(f, wd, st, path, paths_to_scan, order, i + 1, files)
             ELSE IF order[i] = IterdirDenied
             THEN IF iterdir_denied(path)
                  THEN Return(ReadError(Msg("permission_listing", p), 103))
                  ELSE scan_paths(f, wd, st, path, paths_to_scan, order, i + 1, files)
             ELSE scanned(scan_children(f, wd, st, p, order[i], files))

\* the outer except clause: the message decides the code
read_error_code(e) ==
    IF LowerMsgHas(e, "denied") \/ LowerMsgHas(e, "not allowed") THEN 103
    ELSE IF LowerMsgHas(e, "not found") THEN 104
    ELSE 100

read_path_handler(e) == Return(ReadError(MsgOf(e), read_error_code(e)))

\* what `for p in paths_to_scan` will go over, for choosing the read orders
paths_to_scan_of(f, wd, st, path) ==
    LET one(internal) == IF Raised(internal) THEN <<>> ELSE <<internal.val>>
        all(roots) == IF Raised(roots) THEN <<>>
                      ELSE [i \in 1..Len(roots.val) |-> PathStr(roots.val[i])]
    IN  IF path # <<>> THEN one(to_internal_path(f, wd, st, path))
        ELSE all(allowed_roots_list(f, wd, st))

\* what reading the directories to scan can give: the names in one of
\* their orders, or the refusal to list the directory
ScanOrders(f, wd, paths) ==
    LET names(i) == IF Path_is_dir(f, wd, paths[i])
                    THEN Orderings(Children(f, scanned_dir(f, wd, paths[i])))
                         \cup {IterdirDenied}
                    ELSE {<<>>}
        orders(of) == {o \in [1..Len(paths) -> UNION {of[i] : i \in 1..Len(paths)}] :
                          \A i \in 1..Len(paths) : o[i] \in of[i]}
    IN  orders([i \in 1..Len(paths) |-> names(i)])

read_path_allowed(f, wd, st, host_path, order) ==
    LET all_roots(roots) ==
            IF Raised(roots) THEN read_path_handler(roots.exc)
            ELSE scan_paths(f, wd, st, <<>>,
                            [i \in 1..Len(roots.val) |-> PathStr(roots.val[i])],
                            order, 1, <<>>)
        explicit(path, allowed) ==
            IF Raised(allowed) THEN read_path_handler(allowed.exc)
            ELSE IF ~allowed.val THEN Return(ReadError(Msg("denied", path), 103))
            ELSE IF ~Path_exists(f, wd, path)
            THEN Return(ReadError(Msg("path_not_found", path), 104))
            ELSE IF ~Path_is_dir(f, wd, path)
            THEN Return(ReadError(Msg("not_directory", path), 100))
            ELSE scan_paths(f, wd, st, path, <<path>>, order, 1, <<>>)
        translated(internal) ==
            IF Raised(internal) THEN internal
            ELSE IF internal.val # <<>>
            THEN explicit(internal.val, is_path_allowed(f, wd, st, internal.val))
            ELSE all_roots(allowed_roots_list(f, wd, st))
    IN  IF host_path # <<>> THEN translated(to_internal_path(f, wd, st, host_path))
        ELSE all_roots(allowed_roots_list(f, wd, st))

----------------------------------------------------------------------------
(* glpi/models.py, processors/: from a document to a ProcessedContract *)

\* A dict is a function from its keys; a value is the symbol of its JSON or
\* Python literal ("None", "True", "False") or of its content.
EmptyDict == [k \in {} |-> "None"]

\* the fields of ProcessedContract, and the default each takes when absent
ProcessedContractFields ==
    {"contract_name", "contract_num", "accounting_number", "parties",
     "start_date", "end_date", "duration_months", "renewal_type", "renewal_enum",
     "notice_months", "billing_frequency_months", "amount", "currency",
     "payment_terms", "sla_support_hours", "key_terms", "summary"}

ProcessedContractRequired == {"contract_name", "summary"}

ProcessedContractDefault(k) ==
    CASE k = "parties" -> "{}"
      [] k = "currency" -> "EUR"
      [] k = "key_terms" -> "[]"
      [] OTHER -> "None"

\* ProcessedContract(**data): pydantic requires the required fields, takes
\* the declared ones and ignores every other key of data
ProcessedContract(data) ==
    IF \E k \in ProcessedContractRequired : Get(data, k, "None") = "None"
    THEN Raise(Exc("ValidationError", "validation", <<>>))
    ELSE Return([k \in ProcessedContractFields |->
                    Get(data, k, ProcessedContractDefault(k))])

\* ContractProcessor._normalize_date on date symbols: "dmy" is a date
\* written DD-MM-YYYY or DD/MM/YYYY, "iso" one written YYYY-MM-DD
ContractProcessor_normalize_date(date_str) ==
    CASE date_str \in {"None", ""} -> "None"
      [] date_str = "dmy" -> "iso"
      [] OTHER -> date_str

normalize_dates(data) ==
    [k \in DOMAIN data |->
        IF k \in {"start_date", "end_date"}
        THEN ContractProcessor_normalize_date(data[k]) ELSE data[k]]

\* DocumentParser.extract_text; readable is whether the parsing library can
\* read the file's content
extract_text(f, wd, st, file_path, readable) ==
    LET ext == lower_ext(file_path)
    IN  IF ~Path_exists(f, wd, file_path)
        THEN Raise(Exc("FileNotFoundError", "file_not_found", file_path))
        ELSE IF ext \notin allowed_extensions_list(st)
        THEN Raise(Exc("ValueError", "ext_not_allowed", ext))
        ELSE IF ext \notin {<<"pdf">>, <<"docx">>, <<"doc">>, <<"txt">>}
        THEN Raise(Exc("ValueError", "unsupported_type", ext))
        ELSE IF ~readable \/ ~Path_is_file(f, wd, file_path)
        THEN Raise(Exc("Exception", "unreadable", file_path))
        ELSE Return("text")

\* ContractProcessor._parse_with_llm; reply is what the provider's endpoint
\* does with the request: kind "transport" (timeout, unreachable), "status"
\* (a non-200 reply), "body" (a 200 reply that is not the expected JSON) or
\* "json" (a 200 reply whose content is the JSON object data)
parse_with_llm(st, reply) ==
    IF st.llm_provider \notin {"ollama", "anthropic", "openai"}
    THEN Raise(Exc("ValueError", "unsupported_provider", <<st.llm_provider>>))
    ELSE CASE reply.kind = "transport" -> Raise(Exc("HTTPError", "llm_transport", <<>>))
           [] reply.kind = "status" -> Raise(Exc("ValueError", "llm_status", <<>>))
           [] reply.kind = "body" -> Raise(Exc("JSONDecodeError", "llm_body", <<>>))
           [] OTHER -> ProcessedContract(normalize_dates(reply.data))

\* BaseProcessor.process
process(f, wd, st, file_path, readable, reply) ==
    LET parsed(text) == IF Raised(text) THEN text ELSE parse_with_llm(st, reply)
    IN  parsed(extract_text(f, wd, st, file_path, readable))

----------------------------------------------------------------------------
(* tools/document_tools.py: process_contract *)

\* the dict {"success": False, "error": ..., **get_error_response(code)}
ErrorDict(message_id, code) ==
    [k \in {"success", "error", "error_code", "error_description"} |->
        CASE k = "success" -> "False"
          [] k = "error" -> message_id
          [] k = "error_code" -> ToString(code)
          [] OTHER -> ERROR_CODES(code)]

process_contract(f, wd, st, host_path, readable, reply) ==
    LET answered(result) ==
            IF Raised(result) THEN Return(ErrorDict(result.exc.id, 100))
            ELSE Return(result.val)
        guarded(file_path, allowed) ==
            IF Raised(allowed) THEN Return(ErrorDict(allowed.exc.id, 100))
            ELSE IF ~allowed.val THEN Return(ErrorDict("denied", 103))
            ELSE IF ~Path_exists(f, wd, file_path)
            THEN Return(ErrorDict("path_not_found", 104))
            ELSE answered(process(f, wd, st, file_path, readable, reply))
        translated(internal) ==
            IF Raised(internal) THEN internal
            ELSE guarded(internal.val, is_path_allowed(f, wd, st, internal.val))
    IN  translated(to_internal_path(f, wd, st, host_path))

----------------------------------------------------------------------------
(* glpi/, tools/contract_tools.py: create_glpi_contract *)

\* The remote GLPI system: mode is how it answers ("up": every request
\* succeeds; "down": initSession is refused; "no_read": a created contract
\* cannot be read back), contracts the ids of the contracts it holds,
\* sessions the sessions opened on it and not killed.
GlpiModes == {"up", "down", "no_read"}

\* the parameters of create_glpi_contract
CreateParams ==
    {"name", "num", "entities_id", "is_recursive", "contracttypes_id", "states_id",
     "cost", "accounting_number", "begin_date", "duration", "notice", "periodicity",
     "billing", "renewal", "alert", "week_begin_hour", "week_end_hour",
     "use_saturday", "saturday_begin_hour", "saturday_end_hour", "use_sunday",
     "sunday_begin_hour", "sunday_end_hour", "max_links_allowed", "locations_id",
     "comment", "is_template", "template_name", "is_deleted", "suppliers_id",
     "end_date", "file_path"}

CreateRequired == {"name"}

\* get_glpi_client: a new client whose session is opened when GLPI lets it;
\* a refusal is swallowed
get_glpi_client(g) ==
    IF g.mode # "down" THEN [g EXCEPT !.sessions = @ + 1] ELSE g

\* the attachment step: what document_error the response carries.  The
\* document is never attached: DocumentManager is not built when the path
\* or its extension is refused, and GLPIAPIClient has no upload_file.
attach_error(f, wd, st, file_path, allowed) ==
    IF ~allowed \/ lower_ext(file_path) \notin allowed_extensions_list(st)
    THEN Msg("unbound_doc_manager", <<>>)
    ELSE IF ~Path_exists(f, wd, file_path) THEN Msg("file_not_found", file_path)
    ELSE IF ~Path_is_file(f, wd, file_path) THEN Msg("not_a_file", file_path)
    ELSE Msg("no_upload_file", <<>>)

\* the body of create_glpi_contract: the outcome and the GLPI it leaves
create_glpi_contract_body(f, wd, st, g, file_path, kwargs) ==
    LET contract_id == Cardinality(g.contracts) + 1
        attached(created, allowed) ==
            IF file_path # <<>> /\ Raised(allowed)
            THEN [out |-> Raise(allowed.exc), glpi |-> created]
            ELSE [out |-> Return([id |-> contract_id,
                                  name |-> kwargs["name"],
                                  document_attached |-> FALSE,
                                  document_error |->
                                      IF file_path = <<>> THEN NoMsg
                                      ELSE attach_error(f, wd, st, file_path,
                                                        allowed.val)]),
                  glpi |-> created]
        stored(opened, created) ==
            IF \E k \in {"begin_date", "end_date"} :
                   Get(kwargs, k, "None") \notin {"None", "iso"}
            THEN [out |-> Raise(Exc("ValidationError", "validation", <<>>)),
                  glpi |-> opened]
            ELSE IF g.mode = "down"
            THEN [out |-> Raise(Exc("ValueError", "session_failed", <<>>)),
                  glpi |-> opened]
            ELSE IF g.mode = "no_read"
            THEN [out |-> Raise(Exc("ValueError", "contract_not_found", <<>>)),
                  glpi |-> created]
            ELSE attached(created, is_path_allowed(f, wd, st, file_path))
        with_client(opened) ==
            stored(opened, [opened EXCEPT !.contracts = @ \cup {contract_id}])
    IN  with_client(get_glpi_client(g))

\* a call whose missing name is filled in instead of being refused
create_glpi_contract_named(f, wd, st, g, file_path, valid_data) ==
    create_glpi_contract_body(f, wd, st, g, file_path,
                              [k \in DOMAIN valid_data \cup {"name"} |->
                                  Get(valid_data, k, "v")])

\* the call create_glpi_contract(file_path=file_path, **valid_data): Python
\* binds the arguments to the parameters before the body runs
create_glpi_contract(f, wd, st, g, file_path, valid_data) ==
    IF "file_path" \in DOMAIN valid_data
    THEN [out |-> Raise(Exc("TypeError", "multiple_file_path", <<>>)), glpi |-> g]
    ELSE IF ~(CreateRequired \subseteq DOMAIN valid_data)
    THEN [out |-> Raise(Exc("TypeError", "missing_name", <<>>)), glpi |-> g]
    ELSE create_glpi_contract_body(f, wd, st, g, file_path, valid_data)

----------------------------------------------------------------------------
(* processors/contract_processor.py: generate_batch_summary *)

\* the provider's name as the fallback text spells it
ProviderName(provider) ==
    CASE provider = "ollama" -> "Ollama"
      [] provider = "anthropic" -> "Anthropic"
      [] provider = "openai" -> "OpenAI"
      [] OTHER -> "?"

\* the fixed text returned for a non-200 reply
summary_fallback(st) == Msg("Error al generar resumen con", <<ProviderName(st.llm_provider)>>)

\* reply is what the provider's endpoint does with the request: "transport"
\* (timeout, unreachable), "status" (a non-200 reply), "body" (a 200 reply
\* that is not the expected JSON) or "text" (a 200 reply with the summary)
generate_batch_summary(st, reply) ==
    IF st.llm_provider \notin {"ollama", "anthropic", "openai"}
    THEN Return(Msg("Proveedor de LLM no soportado.", <<>>))
    ELSE CASE reply = "transport" -> Raise(Exc("HTTPError", "llm_transport", <<>>))
           [] reply = "status" -> Return(summary_fallback(st))
           [] reply = "body" -> Raise(Exc("JSONDecodeError", "llm_body", <<>>))
           [] OTHER -> Return(Msg("llm_text", <<>>))

----------------------------------------------------------------------------
(* tools/batch_tools.py: tool_batch_contracts *)

\* result_entry as the loop creates it; 0 is None for the numbers, <<>> for
\* the strs and for the error text, which is held as its parts
new_result_entry(file) ==
    [file |-> file,
     processed_path |-> <<>>,
     status |-> "pending",
     contract_id |-> 0,
     contract_name |-> "None",
     document_attached |-> FALSE,
     document_error |-> NoMsg,
     error |-> <<>>,
     error_code |-> 0,
     error_description |-> "None"]

\* the error recorded with the status left as it was
error_entry_unsettled(entry, error, code) ==
    [entry EXCEPT !.error = error,
                  !.error_code = get_error_response(code).error_code,
                  !.error_description = get_error_response(code).error_description]

\* result_entry.update(get_error_response(code)) with status and error set
error_entry(entry, error, code) ==
    [entry EXCEPT !.status = "error",
                  !.error = error,
                  !.error_code = get_error_response(code).error_code,
                  !.error_description = get_error_response(code).error_description]

\* `path or "ALL_ROOTS"`
path_or_all_roots(path) == IF path # <<>> THEN path ELSE <<"ALL_ROOTS">>

\* an empty list answered as a listing error
nothing_listed ==
    [returns |-> TRUE, files |-> <<>>, results |-> <<>>,
     summary_text |-> Msg("Error al listar archivos", <<>>)]

\* `if not files`: the answer to an empty list
nothing_to_process ==
    [returns |-> TRUE, files |-> <<>>, results |-> <<>>,
     summary_text |-> Msg("No se encontraron archivos para procesar.", <<>>)]

\* the discovery step's answer: the call returns at once (returns = TRUE)
\* with one synthetic outcome or with none, or the loop starts over files
discovery(path, read_result) ==
    IF Raised(read_result)
    THEN [returns |-> TRUE, files |-> <<>>,
          results |-> <<error_entry(new_result_entry(path_or_all_roots(path)),
                                    <<Msg("Unexpected error listing files", <<>>),
                                      MsgOf(read_result.exc)>>,
                                    IF LowerMsgHas(read_result.exc, "not found")
                                    THEN 104 ELSE 103)>>,
          summary_text |-> Msg("Error critico inesperado al listar archivos", <<>>)]
    ELSE IF read_result.val.error_code # 0
    THEN [returns |-> TRUE, files |-> <<>>,
          results |-> <<error_entry(new_result_entry(path_or_all_roots(path)),
                                    <<read_result.val.error>>,
                                    read_result.val.error_code)>>,
          summary_text |-> Msg("Error al listar archivos", <<>>)]
    ELSE IF read_result.val.files = <<>>
    THEN nothing_to_process
    ELSE [returns |-> FALSE, files |-> read_result.val.files, results |-> <<>>,
          summary_text |-> NoMsg]

\* the per-file except clauses: the exception's type and message decide the code
per_file_code(e) ==
    IF e.type = "LLMCancelledError" THEN 105
    ELSE IF LowerMsgHas(e, "not found") \/ LowerMsgHas(e, "no exist")
            \/ LowerMsgHas(e, "not exist") THEN 104
    ELSE IF LowerMsgHas(e, "not allowed") /\ LowerMsgHas(e, "extension") THEN 102
    ELSE IF LowerMsgHas(e, "not allowed") \/ LowerMsgHas(e, "denied") THEN 103
    ELSE 100

\* the exception recorded without a code
per_file_handler_uncoded(entry, e) ==
    [entry EXCEPT !.status = "error", !.error = <<MsgOf(e)>>]

per_file_handler(entry, e) == error_entry(entry, <<MsgOf(e)>>, per_file_code(e))

\* bool(extraction_result.get("prompt_injection_detected", False))
injection_flagged(extraction_result) ==
    Get(extraction_result, "prompt_injection_detected", "False") \notin {"False", "None"}

\* the entry of a file stopped for prompt injection
injection_entry(entry) ==
    error_entry(entry, <<Msg("Abortado: posible Prompt Injection", <<>>)>>, 101)

\* {k: v for k, v in extraction_result.items() if v is not None}
without_none(d) == [k \in {x \in DOMAIN d : d[x] # "None"} |-> d[k]]

\* "C. Record Success"
success_entry(entry, creation_result) ==
    [entry EXCEPT !.status = "success",
                  !.contract_id = creation_result.id,
                  !.contract_name = creation_result.name,
                  !.document_attached = creation_result.document_attached,
                  !.document_error = creation_result.document_error]

\* the error text is held as its parts; Sep is the " | " put after the
\* existing text
Sep == Msg(" | ", <<>>)

\* str.lstrip(" | ") on a text held as parts: the leading parts made of
\* nothing but blanks and bars go
RECURSIVE lstrip_sep(_)
lstrip_sep(parts) ==
    IF parts # <<>> /\ Head(parts).arg = <<>> /\ Head(parts).id \in {"", " ", "|", " | "}
    THEN lstrip_sep(Tail(parts))
    ELSE parts

\* f"{result_entry.get('error', '')} | ".lstrip(' | '): the key is there, so
\* an entry without error gives the text "None"
existing_error(entry) ==
    lstrip_sep((IF entry.error = <<>> THEN <<Msg("None", <<>>)>> ELSE entry.error)
               \o <<Sep>>)

\* an except clause that puts the failure in place of the existing text
move_failed_overwrite(entry, move_error) ==
    [entry EXCEPT !.status = "error",
                  !.error = <<Msg("Fallo al mover archivo a carpeta destino", <<>>),
                              MsgOf(move_error)>>]

\* the except clause of the relocation block
move_failed(entry, move_error) ==
    [entry EXCEPT !.status = "error",
                  !.error = existing_error(entry)
                            \o <<Msg("Fallo al mover archivo a carpeta destino", <<>>),
                                 MsgOf(move_error)>>]

\* the relocation block: the entry and the filesystem it leaves, and
\* whether the except clause was entered
relocation(f, wd, st, file_path, entry, os_ok) ==
    LET folder == IF entry.status = "success" THEN st.glpi_folder_success
                  ELSE IF entry.status = "error" THEN st.glpi_folder_errores
                  ELSE <<>>
        except(move_error, left) ==
            [entry |-> move_failed(entry, move_error), fs |-> left, raised |-> TRUE]
        reported(moved, host) ==
            IF Raised(host) THEN except(host.exc, moved.fs)
            ELSE [entry |-> [entry EXCEPT !.processed_path = host.val],
                  fs |-> moved.fs, raised |-> FALSE]
        placed(moved) ==
            IF Raised(moved.out) THEN except(moved.out.exc, moved.fs)
            ELSE reported(moved, to_host_path(moved.fs, wd, st, moved.out.val))
        into(source_path, target_dir) ==
            IF ~target_dir.ok
            THEN except(Exc("RuntimeError", "symlink_loop", folder), f)
            ELSE placed(move_file_safely(f, wd, source_path.val,
                                         PathStr(target_dir.path), os_ok))
        translated(source_path) ==
            IF Raised(source_path) THEN except(source_path.exc, f)
            ELSE IF folder = <<>> THEN [entry |-> entry, fs |-> f, raised |-> FALSE]
            ELSE into(source_path, Path_resolve(f, wd, folder))
    IN  translated(to_internal_path(f, wd, st, file_path))

\* results.append(result_entry), put at the front instead
results_prepend(results, result_entry) == <<result_entry>> \o results

\* results.append(result_entry)
results_append(results, result_entry) == Append(results, result_entry)

----------------------------------------------------------------------------
(* The environments the model runs in *)

A == <<"a">>
B == <<"b">>
str_a == <<"/", "a">>
str_b == <<"/", "b">>
str_ab == <<"/", "a", "/", "b">>

\* "/", "/a" and a second top-level entry "/b" of kind top_b
BaseFS(top_b) == (<<>> :> DirNode) @@ (<<A>> :> DirNode) @@ (<<B>> :> top_b)

\* what one more entry at loc can be: a directory, a regular file, a link
\* into "/a", a link into "/b", a link to the (absent) "/a/b", a link to itself
ExtraKinds(loc) ==
    {DirNode, FileNode, LinkNode(str_a), LinkNode(str_b), LinkNode(str_ab),
     LinkNode(PathStr(loc))}

FileSystems ==
    {BaseFS(DirNode)}
    \cup {BaseFS(DirNode) @@ (loc :> k) : loc \in {<<A, A>>}, k \in ExtraKinds(<<A, A>>)}
    \cup {BaseFS(DirNode) @@ (loc :> k) : loc \in {<<B, A>>}, k \in ExtraKinds(<<B, A>>)}
    \cup {BaseFS(LinkNode(str_a)) @@ (<<A, A>> :> k) : k \in ExtraKinds(<<A, A>>)}

WorkingDirs == {<<>>, <<A>>}

\* the fields' defaults; the comma-separated fields are held as the sequence
\* of their stripped, non-empty items
DefaultSettings ==
    [glpi_allowed_roots |-> <<>>,
     glpi_folder_success |-> <<>>,
     glpi_folder_errores |-> <<>>,
     glpi_host_allowed_roots |-> <<>>,
     glpi_host_folder_success |-> <<>>,
     glpi_host_folder_errores |-> <<>>,
     glpi_allowed_extensions |-> <<<<"pdf">>, <<"txt">>, <<"doc">>, <<"docx">>>>,
     llm_provider |-> "openai",
     llm_mock |-> FALSE]

\* root configurations: none, one root, two roots, a relative root
RootConfigs == {<<>>, <<str_a>>, <<str_a \o str_a, str_b>>, <<A>>}

GuardAlphabet == {"/", ".", "a", "b"}
GuardPaths == StrsUpTo(GuardAlphabet, MaxPathLen)

\* most entries the scanned root directory holds
MaxFiles == 2

OK == <<"ok">>
str_ok == <<"/", "ok">>
str_err == <<"/", "err">>
str_h == <<"/", "h">>
OutsideFile == <<"s", ".", "txt">>

\* what the root directory "/a" can hold: two documents (one with an
\* upper-case extension), a file of a foreign type, and a link to a file
\* outside the root
RootEntries ==
    {<<<<"c1", ".", "pdf">>, FileNode>>,
     <<<<"c2", ".", "PDF">>, FileNode>>,
     <<<<"x", ".", "exe">>, FileNode>>,
     <<<<"ln", ".", "txt">>, LinkNode(str_b \o <<Slash>> \o OutsideFile)>>}

\* the root "/a", a directory "/b" outside it holding a file, and the
\* success folder "/ok"; the error folder "/err" is not there yet
BatchBaseFS ==
    (<<>> :> DirNode) @@ (<<A>> :> DirNode) @@ (<<B>> :> DirNode)
    @@ (<<B, OutsideFile>> :> FileNode) @@ (<<OK>> :> DirNode)

BatchFileSystems ==
    {[q \in (DOMAIN BatchBaseFS) \cup {<<A, e[1]>> : e \in held} |->
         IF q \in DOMAIN BatchBaseFS THEN BatchBaseFS[q]
         ELSE (CHOOSE e \in held : <<A, e[1]>> = q)[2]] :
     held \in {E \in SUBSET RootEntries : Cardinality(E) <= MaxFiles}}

\* one root with both folders; one root and no folders; one root with both
\* folders, reported to the client under host paths
PlainSettings ==
    [DefaultSettings EXCEPT !.glpi_allowed_roots = <<str_a>>,
                            !.glpi_folder_success = str_ok,
                            !.glpi_folder_errores = str_err]
NoFolderSettings == [DefaultSettings EXCEPT !.glpi_allowed_roots = <<str_a>>]
HostedSettings ==
    [PlainSettings EXCEPT !.glpi_host_allowed_roots = <<str_h>>,
                          !.glpi_host_folder_success = str_h \o <<"ok">>,
                          !.glpi_host_folder_errores = str_h \o <<"err">>,
                          !.llm_provider = "ollama"]

BatchSettings == {PlainSettings, NoFolderSettings, HostedSettings}

\* the path argument: none, the root, a directory outside the roots, the
\* root's host path, a file of the root
BatchPaths ==
    {<<>>, str_a, str_b, str_h, str_a \o <<Slash, "c1", ".", "pdf">>}

\* what the provider can answer an extraction request with
GoodRecord ==
    [contract_name |-> "v", summary |-> "v", accounting_number |-> "v",
     end_date |-> "dmy", prompt_injection_detected |-> "False"]
InjectedRecord == [GoodRecord EXCEPT !.prompt_injection_detected = "True"]
NamelessRecord == [summary |-> "v", prompt_injection_detected |-> "False"]

LLMReplies ==
    {[kind |-> k, data |-> EmptyDict] : k \in {"transport", "status", "body"}}
    \cup {[kind |-> "json", data |-> d] : d \in {GoodRecord, InjectedRecord, NamelessRecord}}

\* what happens to one document: the parsing library cannot read it, or it
\* can and the provider answers
Documents ==
    {[readable |-> FALSE, reply |-> [kind |-> "transport", data |-> EmptyDict]]}
    \cup {[readable |-> TRUE, reply |-> r] : r \in LLMReplies}

SummaryReplies == {"text", "status", "transport", "body"}

\* the invocations of tool_batch_contracts the model follows
Runs == {1, 2}

----------------------------------------------------------------------------
(* PathGuard driver: is_path_allowed applied to every bounded input *)

\* no call made yet
NotCalled == [exc |-> Exc("pending", "none", <<>>), val |-> FALSE]

\* a frame of tool_batch_contracts: pc is where the coroutine stands
\* ("off": not invoked; "start"; "extract", "create", "relocate": the steps
\* of the loop for files[i]; "summary"; "returned"; "raised": an exception
\* left the function).  log and summary_reply are not the program's: they
\* record, for each file, what the provider extracted, whether
\* create_glpi_contract was called, the entry as it was before the
\* relocation block and whether that block's except clause was entered,
\* the contracts GLPI came to hold during the call of create_glpi_contract, and
\* how the summary request was answered.
StartFrame(path) ==
    [pc |-> "start",
     path |-> path,
     read_result |-> NotCalled,
     files |-> <<>>,
     i |-> 0,
     result_entry |-> new_result_entry(<<>>),
     extraction_result |-> EmptyDict,
     results |-> <<>>,
     summary_text |-> NoMsg,
     exc |-> NoExc,
     log |-> <<>>,
     summary_reply |-> "none"]

OffFrame == [StartFrame(<<>>) EXCEPT !.pc = "off"]

\* no tool called yet
NoCall == [op |-> "none", arg |-> <<>>, out |-> NotCalled]

NoGlpi == [mode |-> "up", contracts |-> {}, sessions |-> 0]

GuardInit ==
    /\ fs \in FileSystems
    /\ cwd \in WorkingDirs
    /\ settings \in {[DefaultSettings EXCEPT !.glpi_allowed_roots = r] : r \in RootConfigs}
    /\ g_path \in GuardPaths
    /\ g_result = NotCalled
    /\ glpi = NoGlpi
    /\ batch = [r \in Runs |-> OffFrame]
    /\ call = NoCall

GuardCall ==
    /\ g_result.exc.type = "pending"
    /\ g_result' = is_path_allowed(fs, cwd, settings, g_path)
    /\ UNCHANGED <<fs, cwd, settings, g_path, glpi, batch, call>>

GuardNext == GuardCall

SpecGuard == GuardInit /\ [][GuardNext]_vars

----------------------------------------------------------------------------
(* Batch driver: one invocation of tool_batch_contracts *)

Init ==
    /\ fs \in BatchFileSystems
    /\ cwd = <<>>
    /\ settings \in BatchSettings
    /\ g_path = <<>>
    /\ g_result = NotCalled
    /\ glpi \in {[NoGlpi EXCEPT !.mode = m] : m \in GlpiModes}
    /\ batch \in {[r \in Runs |-> IF r = 1 THEN StartFrame(p) ELSE OffFrame] :
                     p \in BatchPaths}
    /\ call = NoCall

\* the prompt_injection_detected of the record the provider extracted from
\* the file; "none" when process_contract raised or answered an error dict
\* (the provider was not asked, or gave no valid record)
extracted_flag(extraction_result, reply) ==
    IF ~Raised(extraction_result) /\ "success" \notin DOMAIN extraction_result.val
    THEN Get(reply.data, "prompt_injection_detected", "absent")
    ELSE "none"

\* the failure process_contract answered with: the error_code and the
\* error of its error dict; "none" when it answered a record or raised
extraction_failure(extraction_result) ==
    IF ~Raised(extraction_result) /\ "success" \in DOMAIN extraction_result.val
    THEN [error_code |-> extraction_result.val["error_code"],
          error |-> extraction_result.val["error"]]
    ELSE [error_code |-> "none", error |-> "none"]

\* "1. Get list of files": read_path_allowed and what is made of its answer
Discover(r) ==
    /\ batch[r].pc = "start"
    /\ \E order \in ScanOrders(fs, cwd,
                               paths_to_scan_of(fs, cwd, settings, batch[r].path)) :
          LET listed(d, read_result) ==
                  batch' = [batch EXCEPT
                               ![r].pc = IF d.returns THEN "returned" ELSE "extract",
                               ![r].read_result = read_result,
                               ![r].files = d.files,
                               ![r].i = 1,
                               ![r].results = d.results,
                               ![r].summary_text = d.summary_text]
              read(read_result) == listed(discovery(batch[r].path, read_result), read_result)
          IN  read(read_path_allowed(fs, cwd, settings, batch[r].path, order))
    /\ UNCHANGED <<fs, cwd, settings, g_path, g_result, glpi, call>>

\* "A. Extract Data": the entry is created and process_contract awaited
Extract(r) ==
    /\ batch[r].pc = "extract"
    /\ \E doc \in Documents :
          LET file_path == batch[r].files[batch[r].i]
              extracted(entry, extraction_result, seen) ==
                  batch' =
                      IF Raised(extraction_result)
                      THEN [batch EXCEPT ![r].pc = "relocate",
                                         ![r].result_entry =
                                             per_file_handler(entry, extraction_result.exc),
                                         ![r].log = Append(@, seen)]
                      ELSE [batch EXCEPT ![r].pc = "create",
                                         ![r].result_entry = entry,
                                         ![r].extraction_result = extraction_result.val,
                                         ![r].log = Append(@, seen)]
              awaited(extraction_result) ==
                  extracted(new_result_entry(Path_name(file_path)), extraction_result,
                            [flag |-> extracted_flag(extraction_result, doc.reply),
                             failure |-> extraction_failure(extraction_result),
                             create_called |-> FALSE,
                             created |-> {},
                             before |-> new_result_entry(<<>>),
                             move_raised |-> FALSE])
          IN  awaited(process_contract(fs, cwd, settings, file_path,
                                       doc.readable, doc.reply))
    /\ UNCHANGED <<fs, cwd, settings, g_path, g_result, glpi, call>>

\* the prompt-injection check, then create_glpi_contract awaited and its
\* result or its exception recorded
Create(r) ==
    /\ batch[r].pc = "create"
    /\ LET file_path == batch[r].files[batch[r].i]
           entry == batch[r].result_entry
           extraction_result == batch[r].extraction_result
           valid_data == filter_kwargs(CreateParams, without_none(extraction_result))
           recorded(creation) ==
               /\ batch' = [batch EXCEPT
                               ![r].pc = "relocate",
                               ![r].result_entry =
                                   IF Raised(creation.out)
                                   THEN per_file_handler(entry, creation.out.exc)
                                   ELSE success_entry(entry, creation.out.val),
                               ![r].extraction_result = EmptyDict,
                               ![r].log[batch[r].i].create_called = TRUE,
                               ![r].log[batch[r].i].created =
                                   creation.glpi.contracts \ glpi.contracts]
               /\ glpi' = creation.glpi
       IN  IF injection_flagged(extraction_result)
           THEN /\ batch' = [batch EXCEPT ![r].pc = "relocate",
                                          ![r].result_entry = injection_entry(entry),
                                          ![r].extraction_result = EmptyDict]
                /\ glpi' = glpi
           ELSE recorded(create_glpi_contract(fs, cwd, settings, glpi, file_path,
                                              valid_data))
    /\ UNCHANGED <<fs, cwd, settings, g_path, g_result, call>>

\* a loop that stays at the file it has just finished
same_file(i) == i

\* `for file_path in files`: the file the loop takes after files[i]
next_file(i) == i + 1

\* the file is moved to the folder of its status, the entry appended, and
\* the loop goes to the next file or ends
Relocate(r) ==
    /\ batch[r].pc = "relocate"
    /\ \E os_ok \in BOOLEAN :
          LET appended(moved) ==
                  /\ fs' = moved.fs
                  /\ batch' = [batch EXCEPT
                                  ![r].pc = IF batch[r].i < Len(batch[r].files)
                                            THEN "extract" ELSE "summary",
                                  ![r].i = next_file(@),
                                  ![r].result_entry = new_result_entry(<<>>),
                                  ![r].results = results_append(@, moved.entry),
                                  ![r].log[batch[r].i].before = batch[r].result_entry,
                                  ![r].log[batch[r].i].move_raised = moved.raised]
          IN  appended(relocation(fs, cwd, settings, batch[r].files[batch[r].i],
                                  batch[r].result_entry, os_ok))
    /\ UNCHANGED <<cwd, settings, g_path, g_result, glpi, call>>

\* generate_batch_summary awaited, and the return
Summarize(r) ==
    /\ batch[r].pc = "summary"
    /\ \E reply \in SummaryReplies :
          LET returned(summary_text) ==
                  batch' = IF Raised(summary_text)
                           THEN [batch EXCEPT ![r].pc = "raised",
                                              ![r].exc = summary_text.exc,
                                              ![r].summary_reply = reply]
                           ELSE [batch EXCEPT ![r].pc = "returned",
                                              ![r].summary_text = summary_text.val,
                                              ![r].summary_reply = reply]
          IN  returned(generate_batch_summary(settings, reply))
    /\ UNCHANGED <<fs, cwd, settings, g_path, g_result, glpi, call>>

Next ==
    \E r \in Runs :
        \/ Discover(r)
        \/ Extract(r)
        \/ Create(r)
        \/ Relocate(r)
        \/ Summarize(r)

Spec == Init /\ [][Next]_vars

\* Two invocations of tool_batch_contracts in flight at once over the same
\* folder: the server awaits each tool call in its own task, and the
\* coroutine yields at every await, so the steps of the two interleave.  The
\* root holds one document; GLPI is up.
ConcurrentFileSystems ==
    {f \in BatchFileSystems :
        /\ <<A, <<"c1", ".", "pdf">>>> \in DOMAIN f
        /\ Cardinality({q \in DOMAIN f : Len(q) = 2 /\ q[1] = A}) = 1}

ConcurrentInit ==
    /\ fs \in ConcurrentFileSystems
    /\ cwd = <<>>
    /\ settings \in {PlainSettings, HostedSettings}
    /\ g_path = <<>>
    /\ g_result = NotCalled
    /\ glpi = NoGlpi
    /\ batch \in {[r \in Runs |-> StartFrame(p)] : p \in {<<>>, str_a}}
    /\ call = NoCall

SpecConcurrent == ConcurrentInit /\ [][Next]_vars

----------------------------------------------------------------------------
(* Tools driver: one direct call of a tool of the server *)

\* the file_path a client gives create_glpi_contract: none, a document of
\* the root, a file of a foreign type, a link in the root, a file outside
\* the roots, a document that is not there
ToolPaths ==
    {<<>>,
     str_a \o <<Slash, "c1", ".", "pdf">>,
     str_a \o <<Slash, "x", ".", "exe">>,
     str_a \o <<Slash, "ln", ".", "txt">>,
     str_b \o <<Slash>> \o OutsideFile,
     str_a \o <<Slash, "c9", ".", "pdf">>}

\* the other arguments of create_glpi_contract
CreateArgs ==
    {[name |-> "v"], [name |-> "v", end_date |-> "iso"], [name |-> "v", end_date |-> "dmy"]}

\* two roots of which the first is a string prefix of the second ("/a" and
\* "/ab"), reported to the client as "/h" and "/g"
SiblingSettings ==
    [DefaultSettings EXCEPT !.glpi_allowed_roots = <<str_a, str_a \o <<"b">>>>,
                            !.glpi_host_allowed_roots = <<str_h, <<"/", "g">>>>]

ToolsSettings == BatchSettings \cup {SiblingSettings}

\* the internal and the host side of the configured pairs, in the order
\* the translation goes through them: success folder, error folder, roots
InternalPrefixes(st) ==
    LET strs(roots) == [i \in 1..Len(roots.val) |-> PathStr(roots.val[i])]
    IN  <<folder_success_path(fs, cwd, st).val, folder_errores_path(fs, cwd, st).val>>
        \o strs(allowed_roots_list(fs, cwd, st))

HostPrefixes(st) ==
    <<host_folder_success(fs, cwd, st).val, host_folder_errores(fs, cwd, st).val>>
    \o host_allowed_roots_list(fs, cwd, st).val

\* relative sub-paths, and paths no configured prefix matches: a file
\* outside the roots, a relative name, a path with a ".." step
SubPaths == {<<"c1", ".", "pdf">>, <<"d", "/", "f">>}

UnmatchedPaths ==
    {str_b \o <<Slash>> \o OutsideFile, <<"f">>, str_b \o <<Slash, ".", ".", Slash, "b">>}

TranslationPaths(st) ==
    {pre \o <<Slash>> \o sub :
        pre \in ({InternalPrefixes(st)[n] : n \in 1..Len(InternalPrefixes(st))}
                 \cup {HostPrefixes(st)[n] : n \in 1..Len(HostPrefixes(st))}) \ {<<>>},
        sub \in SubPaths}
    \cup UnmatchedPaths

\* the batch filesystems, with or without the second root "/ab" and a
\* document in it
ToolsFileSystems ==
    BatchFileSystems
    \cup {f @@ (<<<<"a", "b">>>> :> DirNode)
            @@ (<<<<"a", "b">>, <<"c3", ".", "pdf">>>> :> FileNode) :
              f \in BatchFileSystems}

\* a path outside every root, "/b/o", and what can be there: nothing, a
\* regular file, a directory, a symbolic link to the file "/b/s.txt"
OutsidePath == str_b \o <<Slash, "o">>

OutsideKinds == {"absent", "file", "dir", "link"}

\* the filesystem f with "/b/o" being of the given kind
WithOutside(f, kind) ==
    LET rest == [q \in DOMAIN f \ {<<B, <<"o">>>>} |-> f[q]]
    IN  CASE kind = "file" -> rest @@ (<<B, <<"o">>>> :> FileNode)
          [] kind = "dir" -> rest @@ (<<B, <<"o">>>> :> DirNode)
          [] kind = "link" ->
                rest @@ (<<B, <<"o">>>> :> LinkNode(str_b \o <<Slash>> \o OutsideFile))
          [] OTHER -> rest

\* the root holding one document, with each kind of object at "/b/o"
OutsideFileSystems ==
    {WithOutside(BatchBaseFS @@ (<<A, <<"c1", ".", "pdf">>>> :> FileNode), kind) :
        kind \in OutsideKinds}

ToolsInit ==
    /\ fs \in ToolsFileSystems \cup OutsideFileSystems
    /\ cwd = <<>>
    /\ settings \in ToolsSettings
    /\ g_path = <<>>
    /\ g_result = NotCalled
    /\ glpi \in {[NoGlpi EXCEPT !.mode = m] : m \in GlpiModes}
    /\ batch = [r \in Runs |-> OffFrame]
    /\ call = NoCall

\* the tool create_glpi_contract called by a client
CallCreateContract ==
    /\ call.op = "none"
    /\ \E file_path \in ToolPaths, kwargs \in CreateArgs :
          LET answered(creation) ==
                  /\ call' = [op |-> "create_glpi_contract", arg |-> file_path,
                              out |-> creation.out]
                  /\ glpi' = creation.glpi
          IN  answered(create_glpi_contract(fs, cwd, settings, glpi, file_path, kwargs))
    /\ UNCHANGED <<fs, cwd, settings, g_path, g_result, batch>>

\* to_host_path / to_internal_path applied to a path
CallToHostPath ==
    /\ call.op = "none"
    /\ \E path \in TranslationPaths(settings) :
          call' = [op |-> "to_host_path", arg |-> path,
                   out |-> to_host_path(fs, cwd, settings, path)]
    /\ UNCHANGED <<fs, cwd, settings, g_path, g_result, glpi, batch>>

CallToInternalPath ==
    /\ call.op = "none"
    /\ \E path \in TranslationPaths(settings) :
          call' = [op |-> "to_internal_path", arg |-> path,
                   out |-> to_internal_path(fs, cwd, settings, path)]
    /\ UNCHANGED <<fs, cwd, settings, g_path, g_result, glpi, batch>>

\* the folders of the configuration, as the strings of their paths
ConfiguredFolders(st) ==
    {InternalPrefixes(st)[n] : n \in 1..Len(InternalPrefixes(st))} \ {<<>>}

\* the tool list_folders called by a client; os.access refuses at most one
\* of the configured folders
CallListFolders ==
    /\ call.op = "none"
    /\ \E denied \in {{}} \cup {{d} : d \in ConfiguredFolders(settings)} :
          call' = [op |-> "list_folders", arg |-> denied,
                   out |-> list_folders(fs, cwd, settings, denied)]
    /\ UNCHANGED <<fs, cwd, settings, g_path, g_result, glpi, batch>>

\* the path a client gives read_path_allowed: none, either root, a
\* directory outside the roots
ReadPaths == {<<>>, str_a, str_a \o <<"b">>, str_b, OutsidePath}

\* the path a client gives process_contract: a document of the root, the
\* path outside the roots
ContractPaths == {str_a \o <<Slash, "c1", ".", "pdf">>, OutsidePath}

\* the tool process_contract called by a client
CallProcessContract ==
    /\ call.op = "none"
    /\ \E path \in ContractPaths, doc \in Documents :
          call' = [op |-> "process_contract",
                   arg |-> [path |-> path, doc |-> doc],
                   out |-> process_contract(fs, cwd, settings, path,
                                            doc.readable, doc.reply)]
    /\ UNCHANGED <<fs, cwd, settings, g_path, g_result, glpi, batch>>

\* the tool read_path_allowed called by a client
CallReadPathAllowed ==
    /\ call.op = "none"
    /\ \E path \in ReadPaths :
          \E order \in ScanOrders(fs, cwd, paths_to_scan_of(fs, cwd, settings, path)) :
              call' = [op |-> "read_path_allowed",
                       arg |-> [path |-> path, order |-> order],
                       out |-> read_path_allowed(fs, cwd, settings, path, order)]
    /\ UNCHANGED <<fs, cwd, settings, g_path, g_result, glpi, batch>>

ToolsNext ==
    \/ CallProcessContract
    \/ CallListFolders
    \/ CallReadPathAllowed
    \/ CallCreateContract
    \/ CallToHostPath
    \/ CallToInternalPath

SpecTools == ToolsInit /\ [][ToolsNext]_vars

----------------------------------------------------------------------------
(* processors/utils.py: normalize_date, on the text of a date *)

\* A date text is a sequence of tokens: " " a whitespace character, "-" and
\* "/" themselves, "x" any other non-digit character, and "d1", "d2", "d3",
\* "d4" a maximal run of one, two, three, four digits.  None is told from
\* the empty str here: NoneDate is None, Str(s) the str s.
NoneDate == [none |-> TRUE, s |-> <<>>]
Str(s) == [none |-> FALSE, s |-> s]

\* longest date text submitted, in tokens
MaxDateLen == 5

DateTokens == {" ", "-", "/", "x", "d1", "d2", "d3", "d4"}

\* two digit runs next to each other would be one run
DateTexts ==
    {s \in StrsUpTo(DateTokens, MaxDateLen) :
        \A i \in 1..(Len(s) - 1) :
            ~(s[i] \in {"d1", "d2", "d3", "d4"} /\ s[i + 1] \in {"d1", "d2", "d3", "d4"})}

\* str.strip()
RECURSIVE date_lstrip(_)
date_lstrip(s) == IF s # <<>> /\ Head(s) = " " THEN date_lstrip(Tail(s)) ELSE s

RECURSIVE date_rstrip(_)
date_rstrip(s) ==
    IF s # <<>> /\ s[Len(s)] = " " THEN date_rstrip(SubSeq(s, 1, Len(s) - 1)) ELSE s

date_strip(s) == date_lstrip(date_rstrip(s))

\* re.match(r"^(\d{1,2})[-/](\d{1,2})[-/](\d{4})$", date_str)
dmy_match(s) ==
    /\ Len(s) = 5
    /\ s[1] \in {"d1", "d2"} /\ s[2] \in {"-", "/"}
    /\ s[3] \in {"d1", "d2"} /\ s[4] \in {"-", "/"}
    /\ s[5] = "d4"

\* normalize_date / ContractProcessor._normalize_date; month.zfill(2) and
\* day.zfill(2) make a run of two digits of a run of one
normalize_date(date) ==
    IF date.none \/ date.s = <<>> THEN NoneDate
    ELSE IF dmy_match(date_strip(date.s)) THEN Str(<<"d4", "-", "d2", "-", "d2">>)
    ELSE Str(date_strip(date.s))

----------------------------------------------------------------------------
(* auth/oauth_client.py: the stored token; the clock counts minutes *)

\* timedelta(minutes=5)
ExpiryMargin == 5

\* the latest minute of the clock and of an expires_at
MaxClock == 8

\* None, where a token dictionary is expected
NoToken == [none |-> TRUE]

\* the dictionaries save_token writes: the token of the provider, with or
\* without expires_at, and the stored_at that save_token adds
StoredTokens ==
    {[access_token |-> "valid", stored_at |-> 0]}
    \cup {[access_token |-> "valid", stored_at |-> 0, expires_at |-> e] :
              e \in 0..MaxClock}

\* the storage file: not there, not readable as JSON, or holding a token
TokenFiles ==
    {[state |-> "missing", token |-> NoToken], [state |-> "corrupt", token |-> NoToken]}
    \cup {[state |-> "json", token |-> t] : t \in StoredTokens}

\* TokenStorage.load_token
load_token(file) == IF file.state = "json" THEN file.token ELSE NoToken

\* get_valid_token that lets a token through at the margin itself
get_valid_token_at_margin(file, now) ==
    LET valid(token) ==
            IF token = NoToken THEN NoToken
            ELSE IF "expires_at" \in DOMAIN token
                    /\ token.expires_at < now + ExpiryMargin
            THEN NoToken
            ELSE token
    IN  valid(load_token(file))

\* OAuthClient.get_valid_token
get_valid_token(file, now) ==
    LET valid(token) ==
            IF token = NoToken THEN NoToken
            ELSE IF "expires_at" \in DOMAIN token
                    /\ token.expires_at <= now + ExpiryMargin
            THEN NoToken
            ELSE token
    IN  valid(load_token(file))

----------------------------------------------------------------------------
(* llm/strategies.py: OllamaStrategy *)

\* what happens to the request: the deadline passes (httpx.TimeoutException),
\* the backend is not reachable (httpx.ConnectError), the task is cancelled
\* by the request scope (CancelledError, a BaseException), the backend
\* answers with a status other than 200, with a 200 whose content is not
\* JSON, or with a 200 whose content is the JSON asked for
OllamaCauses == {"deadline", "unreachable", "cancelled", "status", "not_json", "json"}

\* the exception that leaves the `async with` block of the try statement
ollama_request(cause, as_json) ==
    CASE cause = "deadline" -> Raise(Exc("TimeoutException", "llm_transport", <<>>))
      [] cause = "unreachable" -> Raise(Exc("ConnectError", "llm_transport", <<>>))
      [] cause = "cancelled" -> Raise(Exc("CancelledError", "cancelled", <<>>))
      [] cause = "status" -> Raise(Exc("ValueError", "ollama_status", <<>>))
      [] cause = "not_json" /\ as_json -> Raise(Exc("JSONDecodeError", "llm_body", <<>>))
      [] OTHER -> Return(IF as_json THEN "parsed" ELSE "content")

\* the except clauses: TimeoutException, ConnectError, BaseException
\*   ollama_timed_out  "Ollama request timed out after {timeout}s"
\*   ollama_cancelled  "Ollama call cancelled by MCP session ({arg})"
ollama_handlers(result) ==
    IF ~Raised(result) THEN result
    ELSE IF result.exc.type = "TimeoutException"
    THEN Raise(Exc("LLMCancelledError", "ollama_timed_out", <<>>))
    ELSE IF result.exc.type = "ConnectError" THEN result
    ELSE Raise(Exc("LLMCancelledError", "ollama_cancelled", <<result.exc.type>>))

\* OllamaStrategy.generate_json / generate_text
OllamaStrategy_generate_json(cause) == ollama_handlers(ollama_request(cause, TRUE))
OllamaStrategy_generate_text(cause) == ollama_handlers(ollama_request(cause, FALSE))

----------------------------------------------------------------------------
(* Functions driver: a pure function applied to one input *)

\* the most words a message given to the per-file handler is made of
MaxWords == 3

\* the words of such a message: the ones the handler searches for, one of
\* them capitalised, and one it does not search for
HandlerWords ==
    {"not found", "no exist", "not exist", "not allowed", "extension", "denied",
     "Denied", "other"}

\* the exceptions the per-file except clauses can be given
HandlerExceptions ==
    {Exc(type, "text", words) :
        type \in {"LLMCancelledError", "RuntimeError"},
        words \in StrsUpTo(HandlerWords, MaxWords)}

\* llm/strategies.py, llm/factory.py: the mock backend and the factory

Sentinel == <<"INJECTION_TEST">>

\* the dict MockStrategy.generate_json returns
MockPayload(is_malicious) ==
    [contract_name |-> "Contrato de Mantenimiento de Prueba",
     is_contract |-> "True",
     contract_type |-> "Mantenimiento",
     parties |-> "{client, provider}",
     start_date |-> "iso",
     end_date |-> "iso",
     duration_months |-> "12",
     renewal_enum |-> "1",
     notice_months |-> "2",
     billing_frequency_months |-> "3",
     amount |-> "5000.00",
     currency |-> "EUR",
     payment_terms |-> "Transferencia 30 dias",
     sla_support_hours |-> "{...}",
     key_terms |-> "[Mock, Prueba, Desarrollo]",
     summary |-> "Este es un contrato generado por el Mock LLM",
     prompt_injection_detected |-> IF is_malicious THEN "True" ELSE "False"]

MockStrategy_generate_json(system_prompt, user_content) ==
    Return(MockPayload(Contains(user_content, Sentinel)
                       \/ Contains(system_prompt, Sentinel)))

\* get_llm_strategy: the class of the strategy it returns
get_llm_strategy(st) ==
    IF st.llm_mock THEN Return("MockStrategy")
    ELSE CASE st.llm_provider = "openai" -> Return("OpenAIStrategy")
           [] st.llm_provider = "anthropic" -> Return("AnthropicStrategy")
           [] st.llm_provider = "ollama" -> Return("OllamaStrategy")
           [] OTHER -> Raise(Exc("ValueError", "unsupported_provider",
                                 <<st.llm_provider>>))

\* the settings of the provider and of the mock switch
MaxPromptLen == 2
Providers == {"openai", "anthropic", "ollama", "other"}
LlmSettings ==
    {[PlainSettings EXCEPT !.llm_provider = p, !.llm_mock = m] :
        p \in Providers, m \in BOOLEAN}

\* texts of a document and system prompts, with and without the sentinel
PromptTexts == StrsUpTo({"w", "INJECTION_TEST"}, MaxPromptLen)

\* ContractProcessor._get_system_prompt: a fixed text
system_prompt_text == <<"w">>

\* the user message of _parse_with_llm
user_content_of(text) == <<"Extract data from this contract:">> \o text

FunctionsInit ==
    /\ fs = BatchBaseFS
    /\ cwd = <<>>
    /\ settings = PlainSettings
    /\ g_path = <<>>
    /\ g_result = NotCalled
    /\ glpi = NoGlpi
    /\ batch = [r \in Runs |-> OffFrame]
    /\ call \in {[op |-> "normalize_date", arg |-> date, out |-> NotCalled] :
                    date \in {NoneDate} \cup {Str(s) : s \in DateTexts}}
                \cup {[op |-> "per_file_handler", arg |-> e, out |-> NotCalled] :
                         e \in HandlerExceptions}
                \cup {[op |-> method, arg |-> [cause |-> cause], out |-> NotCalled] :
                         method \in {"generate_json", "generate_text"},
                         cause \in OllamaCauses}
                \cup {[op |-> "get_valid_token", arg |-> [file |-> file, now |-> now],
                       out |-> NotCalled] :
                         file \in TokenFiles, now \in 0..MaxClock}
                \cup {[op |-> "parse_with_llm",
                       arg |-> [st |-> st, text |-> text, reply |-> reply],
                       out |-> NotCalled] :
                         st \in LlmSettings, text \in PromptTexts, reply \in LLMReplies}
                \cup {[op |-> "get_llm_strategy", arg |-> [st |-> st],
                       out |-> NotCalled] : st \in LlmSettings}
                \cup {[op |-> "mock_generate_json",
                       arg |-> [system_prompt |-> sp, user_content |-> uc],
                       out |-> NotCalled] :
                         sp \in PromptTexts, uc \in PromptTexts}

ApplyNormalizeDate ==
    /\ call.op = "normalize_date" /\ call.out.exc.type = "pending"
    /\ call' = [call EXCEPT !.out = Return(normalize_date(call.arg))]
    /\ UNCHANGED <<fs, cwd, settings, g_path, g_result, glpi, batch>>

ApplyGetValidToken ==
    /\ call.op = "get_valid_token" /\ call.out.exc.type = "pending"
    /\ call' = [call EXCEPT !.out = Return(get_valid_token(call.arg.file, call.arg.now))]
    /\ UNCHANGED <<fs, cwd, settings, g_path, g_result, glpi, batch>>

\* the except clauses of the loop of tool_batch_contracts, given an exception
ApplyPerFileHandler ==
    /\ call.op = "per_file_handler" /\ call.out.exc.type = "pending"
    /\ call' = [call EXCEPT
                   !.out = Return(per_file_handler(new_result_entry(<<>>), call.arg))]
    /\ UNCHANGED <<fs, cwd, settings, g_path, g_result, glpi, batch>>

\* a request to the Ollama backend, for JSON or for text
ApplyOllamaGenerate ==
    /\ call.op \in {"generate_json", "generate_text"} /\ call.out.exc.type = "pending"
    /\ call' = [call EXCEPT
                   !.out = IF call.op = "generate_json"
                           THEN OllamaStrategy_generate_json(call.arg.cause)
                           ELSE OllamaStrategy_generate_text(call.arg.cause)]
    /\ UNCHANGED <<fs, cwd, settings, g_path, g_result, glpi, batch>>

\* ContractProcessor._parse_with_llm given the text of a document
ApplyParseWithLlm ==
    /\ call.op = "parse_with_llm" /\ call.out.exc.type = "pending"
    /\ call' = [call EXCEPT !.out = parse_with_llm(call.arg.st, call.arg.reply)]
    /\ UNCHANGED <<fs, cwd, settings, g_path, g_result, glpi, batch>>

ApplyGetLlmStrategy ==
    /\ call.op = "get_llm_strategy" /\ call.out.exc.type = "pending"
    /\ call' = [call EXCEPT !.out = get_llm_strategy(call.arg.st)]
    /\ UNCHANGED <<fs, cwd, settings, g_path, g_result, glpi, batch>>

ApplyMockGenerateJson ==
    /\ call.op = "mock_generate_json" /\ call.out.exc.type = "pending"
    /\ call' = [call EXCEPT
                   !.out = MockStrategy_generate_json(call.arg.system_prompt,
                                                      call.arg.user_content)]
    /\ UNCHANGED <<fs, cwd, settings, g_path, g_result, glpi, batch>>

FunctionsNext ==
    \/ ApplyParseWithLlm
    \/ ApplyGetLlmStrategy
    \/ ApplyMockGenerateJson
    \/ ApplyNormalizeDate
    \/ ApplyOllamaGenerate
    \/ ApplyPerFileHandler
    \/ ApplyGetValidToken

SpecFunctions == FunctionsInit /\ [][FunctionsNext]_vars

----------------------------------------------------------------------------
(* PathGuard properties (under SpecGuard) *)

GuardCalled == g_result.exc.type # "pending"

\* the configured roots in canonical form; none when the configuration
\* itself is rejected
ConfiguredRoots ==
    LET r == allowed_roots_list(fs, cwd, settings)
    IN  IF Raised(r) THEN <<>> ELSE r.val

RootsResolvable == ~Raised(allowed_roots_list(fs, cwd, settings))

\* the canonical form of the path under test, when it has one
GuardCanonical == Path_resolve(fs, cwd, g_path)

\* canonical path c is root r or lies below it, read off the path strings:
\* c = r, or c continues r with a "/" (every path is below the root "/")
WithinRoot(c, r) ==
    \/ PathStr(c) = PathStr(r)
    \/ r = <<>>
    \/ StartsWith(PathStr(c), PathStr(r) \o <<Slash>>)

WithinSomeRoot(c) ==
    \E i \in 1..Len(ConfiguredRoots) : WithinRoot(c, ConfiguredRoots[i])

\* C1: every path string containing ".." makes is_path_allowed raise a
\* security error, whatever the roots and wherever the path would resolve.
C1_TraversalRejected ==
    (GuardCalled /\ Contains(g_path, <<".", ".">>)) => IsSecurityError(g_result)

\* C1 witness: a path with ".." that resolves inside a configured root was
\* rejected as a traversal attempt
C1_Witness ==
    /\ GuardCalled
    /\ Contains(g_path, <<".", ".">>)
    /\ GuardCanonical.ok /\ WithinSomeRoot(GuardCanonical.path)
    /\ IsSecurityError(g_result) /\ g_result.exc.id = "traversal"

\* C2: a path without "..", not itself a symbolic link, with at
\* least one root configured, whose canonical form is outside every root,
\* gets the answer false and no exception.
C2_OutsideReturnsFalse ==
    ( /\ GuardCalled
      /\ ~Contains(g_path, <<".", ".">>)
      /\ ~Path_is_symlink(fs, cwd, g_path)
      /\ RootsResolvable /\ Len(ConfiguredRoots) >= 1
      /\ GuardCanonical.ok /\ ~WithinSomeRoot(GuardCanonical.path) )
    => (~Raised(g_result) /\ g_result.val = FALSE)

\* C3: is_path_allowed returns true exactly when the path has no "..", is
\* not an existing symbolic link, and its canonical form is a configured
\* root or a path-component descendant of one (a sibling that only shares a
\* string prefix with a root is not).
C3_TrueIffContained ==
    GuardCalled =>
        ( (~Raised(g_result) /\ g_result.val = TRUE)
          <=> ( /\ ~Contains(g_path, <<".", ".">>)
                /\ ~(Path_exists(fs, cwd, g_path) /\ Path_is_symlink(fs, cwd, g_path))
                /\ GuardCanonical.ok
                /\ WithinSomeRoot(GuardCanonical.path) ) )

\* C3 witness: a strict descendant of a root was allowed
C3_Witness ==
    /\ GuardCalled /\ ~Raised(g_result) /\ g_result.val = TRUE
    /\ \E i \in 1..Len(ConfiguredRoots) :
          /\ WithinRoot(GuardCanonical.path, ConfiguredRoots[i])
          /\ GuardCanonical.path # ConfiguredRoots[i]

\* C4: an existing symbolic link makes is_path_allowed raise a security
\* error, also when the link's target is inside an allowed root.
C4_SymlinkSecurityError ==
    (GuardCalled /\ Path_exists(fs, cwd, g_path) /\ Path_is_symlink(fs, cwd, g_path))
    => IsSecurityError(g_result)

\* What does hold for an existing symbolic link: it never gets an answer;
\* the call raises, and what it raises is a security error whenever the
\* configured roots can be resolved (otherwise the error of resolving them).
SymlinkNeverAnswered ==
    (GuardCalled /\ Path_exists(fs, cwd, g_path) /\ Path_is_symlink(fs, cwd, g_path))
    => ( /\ Raised(g_result)
         /\ (RootsResolvable => IsSecurityError(g_result)) )

\* C5: with zero allowed roots configured, is_path_allowed fails with a
\* security error for every path: never true, never a plain false.
C5_NoRootsSecurityError ==
    (GuardCalled /\ settings.glpi_allowed_roots = <<>>) => IsSecurityError(g_result)

\* C5 witness: an ordinary path was refused because no root is configured
C5_Witness ==
    /\ GuardCalled
    /\ settings.glpi_allowed_roots = <<>>
    /\ ~Contains(g_path, <<".", ".">>)
    /\ IsSecurityError(g_result) /\ g_result.exc.id = "no_roots"

----------------------------------------------------------------------------
(* Batch properties (under Spec) *)

\* the files of run r whose outcome is in the results
Recorded(r) ==
    IF batch[r].files = <<>> THEN {} ELSE 1..Len(batch[r].results)

\* the provider extracted from file k of run r a valid record whose
\* prompt_injection_detected is true / is false
FlaggedRecord(r, k) == batch[r].log[k].flag = "True"

CleanRecord(r, k) == batch[r].log[k].flag = "False"

\* the relocation of the entry's file failed
MoveFailed(entry) ==
    \E n \in 1..Len(entry.error) :
        entry.error[n].id = "Fallo al mover archivo a carpeta destino"

\* the entry's file was put into the folder configured as folder, reported
\* under host_folder, with a name ending in "_<original file name>"
RelocatedTo(entry, folder, host_folder) ==
    LET moved == to_internal_path(fs, cwd, settings, entry.processed_path)
        tail == <<"_">> \o entry.file
    IN  /\ entry.processed_path # <<>>
        /\ StartsWith(entry.processed_path, host_folder \o <<Slash>>)
        /\ ~Raised(moved)
        /\ Path_is_file(fs, cwd, moved.val) \/ Path_is_symlink(fs, cwd, moved.val)
        /\ StartsWith(moved.val, folder \o <<Slash>>)
        /\ Len(Path_name(moved.val)) > Len(tail)
        /\ Drop(Path_name(moved.val), Len(Path_name(moved.val)) - Len(tail)) = tail

\* C6: a file whose extracted record has prompt_injection_detected = true
\* never has create_glpi_contract called for it; its outcome has status
\* error and code 101, and the file is relocated to the error folder (when
\* one is configured and the move itself does not fail).
C6_InjectionStopsFile ==
    \A r \in Runs : \A k \in Recorded(r) :
        FlaggedRecord(r, k) =>
            /\ ~batch[r].log[k].create_called
            /\ batch[r].results[k].status = "error"
            /\ batch[r].results[k].error_code = 101
            /\ (settings.glpi_folder_errores # <<>> /\ ~MoveFailed(batch[r].results[k]))
               => RelocatedTo(batch[r].results[k], settings.glpi_folder_errores,
                              host_folder_errores(fs, cwd, settings).val)

\* C7: a discovered file whose extraction yields a valid record with
\* prompt_injection_detected = false, with GLPI accepting the creation, has
\* an outcome of status success with a contract id, and (the move not
\* failing) the file is in the success folder under a name ending in
\* "_<original file name>".
C7_CleanRecordSucceeds ==
    \A r \in Runs : \A k \in Recorded(r) :
        (CleanRecord(r, k) /\ glpi.mode = "up" /\ ~MoveFailed(batch[r].results[k])) =>
            /\ batch[r].results[k].status = "success"
            /\ batch[r].results[k].contract_id # 0
            /\ settings.glpi_folder_success # <<>>
               => RelocatedTo(batch[r].results[k], settings.glpi_folder_success,
                              host_folder_success(fs, cwd, settings).val)

\* the explicit path of run r lies outside every allowed root: it has no
\* "..", is no symbolic link, and its canonical form is below no root
ExplicitOutside(r) ==
    LET internal == to_internal_path(fs, cwd, settings, batch[r].path)
        roots == allowed_roots_list(fs, cwd, settings)
        c == Path_resolve(fs, cwd, internal.val)
    IN  /\ batch[r].path # <<>>
        /\ ~Raised(internal) /\ ~Raised(roots) /\ roots.val # <<>>
        /\ ~Contains(internal.val, <<".", ".">>)
        /\ ~Path_is_symlink(fs, cwd, internal.val)
        /\ c.ok
        /\ \A n \in 1..Len(roots.val) :
              ~(c.path = roots.val[n]
                \/ StartsWith(PathStr(c.path), PathStr(roots.val[n]) \o <<Slash>>))

\* C8: a run given an explicit path outside the allowed roots returns
\* exactly one synthetic outcome, of status error and code 103 "Read path
\* not allowed"; no file is enumerated, processed or moved.
C8_OutsidePathIs103 ==
    \A r \in Runs :
        (batch[r].pc \notin {"off", "start"} /\ ExplicitOutside(r)) =>
            /\ batch[r].pc = "returned"
            /\ Len(batch[r].results) = 1
            /\ batch[r].results[1].status = "error"
            /\ batch[r].results[1].error_code = 103
            /\ batch[r].results[1].error_description = "Read path not allowed"
            /\ batch[r].files = <<>> /\ batch[r].log = <<>>
            /\ fs \in BatchFileSystems

\* C9: a run has exactly one outcome per discovered file, in discovery
\* order: while the loop runs the results are the outcomes of the files
\* before the current one, and once it is over there is one for each file;
\* a per-file failure is an outcome of status error, and the run cannot
\* have ended in an exception before every file has its outcome.
C9_OneOutcomePerFile ==
    \A r \in Runs :
        /\ batch[r].pc \in {"extract", "create", "relocate"}
           => Len(batch[r].results) = batch[r].i - 1
        /\ (batch[r].pc \in {"summary", "returned", "raised"} /\ batch[r].files # <<>>)
           => Len(batch[r].results) = Len(batch[r].files)
        /\ batch[r].pc = "raised" => batch[r].files # <<>>
        /\ \A k \in Recorded(r) :
              /\ batch[r].results[k].file = Path_name(batch[r].files[k])
              /\ batch[r].results[k].status \in {"success", "error"}

\* C9 witness: a run over two files returned; the first file failed and
\* the second file still has its outcome, after it
C9_Witness ==
    \E r \in Runs :
        /\ batch[r].pc = "returned"
        /\ Len(batch[r].files) = 2 /\ Len(batch[r].results) = 2
        /\ batch[r].results[1].status = "error"
        /\ batch[r].results[1].file = Path_name(batch[r].files[1])
        /\ batch[r].results[2].file = Path_name(batch[r].files[2])
        /\ batch[r].results[1].file # batch[r].results[2].file

\* C10: whatever way the summary request fails, the run returns the
\* per-file results with the fixed fallback summary_text naming the
\* provider; no exception leaves the run.
C10_SummaryFailureFallsBack ==
    \A r \in Runs :
        /\ batch[r].pc # "raised"
        /\ (batch[r].pc = "returned"
            /\ batch[r].summary_reply \in {"status", "transport", "body"})
           => /\ batch[r].summary_text = summary_fallback(settings)
              /\ Len(batch[r].results) = Len(batch[r].files)

\* the text parts sub, in order and next to each other, within parts
HasParts(parts, sub) ==
    \E n \in 0..(Len(parts) - Len(sub)) : SubSeq(parts, n + 1, n + Len(sub)) = sub

\* C11: when the relocation block of a file raised, the file's outcome has
\* status error and its error text holds the relocation failure message,
\* whatever the status before the block; when the entry was an error
\* before, its error text is still within the final error text.
C11_RelocationFailureWins ==
    \A r \in Runs : \A k \in Recorded(r) :
        batch[r].log[k].move_raised =>
            /\ batch[r].results[k].status = "error"
            /\ MoveFailed(batch[r].results[k])
            /\ batch[r].log[k].before.status = "error"
               => /\ batch[r].log[k].before.error # <<>>
                  /\ HasParts(batch[r].results[k].error, batch[r].log[k].before.error)

\* C11 witness: a file that was an error before the relocation block, whose
\* move was refused by the operating system
C11_Witness ==
    \E r \in Runs : \E k \in Recorded(r) :
        /\ batch[r].log[k].move_raised
        /\ batch[r].log[k].before.status = "error"
        /\ batch[r].log[k].before.error_code = 100
        /\ \E n \in 1..Len(batch[r].results[k].error) :
              batch[r].results[k].error[n].id = "os_error"

\* read_path_allowed, called in this step for run r, has answered with no
\* file and no error
EmptyDiscovery(r) ==
    /\ batch[r].pc = "start" /\ batch'[r].pc # "start"
    /\ batch'[r].read_result = Return(ReadFiles(<<>>))

\* C16: when discovery finds no candidate file, the run returns at once an
\* empty results list with the fixed "nothing to process" summary; no
\* provider call (extraction or summary), no creation call and no file
\* move is made, then or later.
C16_EmptyDiscoveryDoesNothing ==
    /\ [][\A r \in Runs :
            EmptyDiscovery(r) =>
                /\ batch'[r].pc = "returned"
                /\ batch'[r].results = <<>>
                /\ batch'[r].summary_text =
                       Msg("No se encontraron archivos para procesar.", <<>>)
                /\ fs' = fs /\ glpi' = glpi]_vars
    /\ [](\A r \in Runs :
            (batch[r].pc = "returned" /\ batch[r].read_result = Return(ReadFiles(<<>>))) =>
                /\ batch[r].log = <<>>
                /\ batch[r].summary_reply = "none"
                /\ fs \in BatchFileSystems
                /\ glpi.sessions = 0 /\ glpi.contracts = {})

\* C16 witness: the run over a root that holds nothing but a file of a
\* foreign type has returned with no outcome and the fixed summary
C16_Witness ==
    \E r \in Runs :
        /\ batch[r].pc = "returned"
        /\ batch[r].results = <<>>
        /\ batch[r].summary_text = Msg("No se encontraron archivos para procesar.", <<>>)
        /\ <<A, <<"x", ".", "exe">>>> \in DOMAIN fs
        /\ batch[r].log = <<>> /\ batch[r].summary_reply = "none"

\* the moves of the status of one outcome
StatusMoves(from, to) ==
    \/ from = to
    \/ from = "pending" /\ to \in {"success", "error"}
    \/ from = "success" /\ to = "error"

\* C19: every outcome in the results has status success or error, never
\* pending; while one file is processed the status of its outcome moves
\* only pending -> success, pending -> error or success -> error (the
\* relocation failure), so an error never becomes a success; an outcome
\* in the results no longer changes its status.
C19_StatusMoves ==
    /\ [](\A r \in Runs : \A k \in 1..Len(batch[r].results) :
              batch[r].results[k].status \in {"success", "error"})
    /\ [][\A r \in Runs :
            /\ batch[r].pc \in {"extract", "create"} =>
                   StatusMoves(batch[r].result_entry.status,
                               batch'[r].result_entry.status)
            /\ (batch[r].pc = "relocate" /\ batch'[r].pc # "relocate") =>
                   /\ Len(batch'[r].results) = Len(batch[r].results) + 1
                   /\ StatusMoves(batch[r].result_entry.status,
                                  batch'[r].results[Len(batch'[r].results)].status)
            /\ batch[r].pc \notin {"off", "start"} =>
                   \A k \in 1..Len(batch[r].results) :
                       /\ k <= Len(batch'[r].results)
                       /\ batch'[r].results[k].status = batch[r].results[k].status]_vars

\* C19 witness: a run has returned the outcomes of two files, both of
\* which went from pending to error when the creation was awaited and
\* stayed error through the relocation, which failed for the second
C19_Witness ==
    \E r \in Runs :
        /\ batch[r].pc = "returned"
        /\ Len(batch[r].results) = 2
        /\ \A k \in 1..2 : /\ batch[r].log[k].create_called
                           /\ batch[r].log[k].before.status = "error"
                           /\ batch[r].results[k].status = "error"
        /\ batch[r].log[2].move_raised

\* the three parts of a structured error are there
StructuredError(entry) ==
    /\ entry.error_code # 0
    /\ entry.error_description # "None"
    /\ entry.error # <<>>

ExtractionFailed(r, k) == batch[r].log[k].failure.error_code # "none"

\* C21: when the extraction of a file fails, the file's outcome records the
\* error code and the message of that failure (103, 104, 102, otherwise
\* 100), and create_glpi_contract is not called for the file.
C21_ExtractionFailureRecorded ==
    \A r \in Runs : \A k \in Recorded(r) :
        ExtractionFailed(r, k) =>
            /\ ToString(batch[r].results[k].error_code) = batch[r].log[k].failure.error_code
            /\ \E n \in 1..Len(batch[r].results[k].error) :
                   batch[r].results[k].error[n].id = batch[r].log[k].failure.error
            /\ ~batch[r].log[k].create_called

\* run r calls process_contract / create_glpi_contract in this step
ExtractionStep(r) == Len(batch'[r].log) # Len(batch[r].log)
CreationStep(r) ==
    /\ Len(batch'[r].log) = Len(batch[r].log)
    /\ \E k \in 1..Len(batch[r].log) :
           batch'[r].log[k].create_called # batch[r].log[k].create_called

\* C25: a run processes its files one after the other: the extraction of a
\* file begins only when every file before it has been extracted and its
\* outcome appended, after the relocation; a creation is called only for
\* the file last extracted, whose outcome is not appended yet; one step makes
\* one call for one file; and no file is extracted or given to the creation
\* a second time.
C25_StrictlySequential ==
    /\ [](\A r \in Runs : Len(batch[r].log) <= Len(batch[r].files))
    /\ [][\A r \in Runs :
            /\ ExtractionStep(r) =>
                   /\ Len(batch'[r].log) = Len(batch[r].log) + 1
                   /\ batch[r].i = Len(batch[r].log) + 1
                   /\ Len(batch[r].results) = Len(batch[r].log)
                   /\ batch[r].pc = "extract"
            /\ CreationStep(r) =>
                   /\ batch[r].i = Len(batch[r].log)
                   /\ Len(batch[r].results) = Len(batch[r].log) - 1
                   /\ ~batch[r].log[batch[r].i].create_called
                   /\ \A k \in 1..Len(batch[r].log) :
                          k # batch[r].i =>
                              batch'[r].log[k].create_called
                                  = batch[r].log[k].create_called
            /\ \A k \in 1..Len(batch[r].log) :
                   batch[r].log[k].create_called =>
                       /\ k <= Len(batch'[r].log)
                       /\ batch'[r].log[k].create_called]_vars

\* C25 witness: a run has returned after two files, each extracted once and
\* given to the creation once, the second after the first was appended
C25_Witness ==
    \E r \in Runs :
        /\ batch[r].pc = "returned"
        /\ Len(batch[r].files) = 2
        /\ Len(batch[r].log) = 2
        /\ Len(batch[r].results) = 2
        /\ \A k \in 1..2 : batch[r].log[k].create_called

SameFileTwice(k1, k2) ==
    /\ k1 \in Recorded(1) /\ k2 \in Recorded(2)
    /\ batch[1].files[k1] = batch[2].files[k2]
    /\ CleanRecord(1, k1) /\ CleanRecord(2, k2)

\* C26: two runs over the same folder do not exclude each other: when both
\* have discovered the same source file before either relocated it, each of
\* them creates a remote record for it, so that GLPI holds two records for
\* the one file and each outcome carries the id of its own, and the run that
\* relocates second fails its move.
C26_BothRunsCreate ==
    \A k1 \in 1..MaxFiles, k2 \in 1..MaxFiles :
        (SameFileTwice(k1, k2) /\ glpi.mode = "up") =>
            /\ Cardinality(glpi.contracts) >= 2
            /\ batch[1].results[k1].contract_id # 0
            /\ batch[2].results[k2].contract_id # 0
            /\ batch[1].results[k1].contract_id # batch[2].results[k2].contract_id
            /\ batch[1].log[k1].move_raised \/ batch[2].log[k2].move_raised

----------------------------------------------------------------------------
(* Tool properties (under SpecTools) *)

\* create_glpi_contract was called with a document to attach and GLPI
\* created the contract
CreatedWithDocument ==
    /\ call.op = "create_glpi_contract"
    /\ call.arg # <<>>
    /\ glpi.mode = "up" /\ glpi.contracts # {}

\* C12: when the contract is created and the document is not attached, for
\* whatever reason (the attachment raises, the path check or the extension
\* check refuses the file), the call still answers with the created
\* contract, document_attached false and document_error populated.
C12_AttachmentNonFatal ==
    CreatedWithDocument =>
        /\ ~Raised(call.out)
        /\ ~call.out.val.document_attached
        /\ call.out.val.document_error # NoMsg

\* no batch run and no tool call is under way
NothingRunning ==
    /\ \A r \in Runs : batch[r].pc \in {"off", "returned", "raised"}
    /\ call.op = "none" \/ call.out.exc.type # "pending"

\* C13: every GLPI session initialised by a run is killed by the time the
\* run returns or fails: once nothing is running, GLPI holds no session
\* that was opened and not killed.
C13_NoSessionOutlivesRun ==
    NothingRunning => glpi.sessions = 0

\* the path is the n-th prefix of from followed by "/" and a sub-path
UnderPrefix(path, from, n) ==
    /\ from[n] # <<>>
    /\ \E sub \in SubPaths : path = from[n] \o <<Slash>> \o sub

\* the path with its n-th prefix of from replaced by the n-th of to
Swapped(path, from, to, n) == to[n] \o Drop(path, Len(from[n]))

\* no prefix of from is a string prefix of the path
Unmatched(path, from) ==
    \A n \in 1..Len(from) : from[n] = <<>> \/ ~StartsWith(path, from[n])

\* C14: for every configured pair (I, E) and sub-path s, to_host_path(I/s)
\* is E/s and to_internal_path(E/s) is I/s; a path that no configured
\* prefix matches is returned as it is by both.
C14_TranslationRoundTrip ==
    /\ call.op = "to_host_path" =>
          /\ ~Raised(call.out)
          /\ \A n \in 1..Len(InternalPrefixes(settings)) :
                UnderPrefix(call.arg, InternalPrefixes(settings), n)
                => call.out.val = Swapped(call.arg, InternalPrefixes(settings),
                                          HostPrefixes(settings), n)
          /\ Unmatched(call.arg, InternalPrefixes(settings)) => call.out.val = call.arg
    /\ call.op = "to_internal_path" =>
          /\ ~Raised(call.out)
          /\ \A n \in 1..Len(HostPrefixes(settings)) :
                UnderPrefix(call.arg, HostPrefixes(settings), n)
                => call.out.val = Swapped(call.arg, HostPrefixes(settings),
                                          InternalPrefixes(settings), n)
          /\ Unmatched(call.arg, HostPrefixes(settings)) => call.out.val = call.arg

\* the category of the answer that the n-th configured folder belongs to
CategoryOf(answer, n) ==
    IF n = 1 THEN answer.processed
    ELSE IF n = 2 THEN answer.errors
    ELSE answer.to_process

\* the n-th configured folder is there as a directory and os.access grants it
Accessible(n) ==
    /\ Components(InternalPrefixes(settings)[n]) \in DOMAIN fs
    /\ fs[Components(InternalPrefixes(settings)[n])].kind = "dir"
    /\ InternalPrefixes(settings)[n] \notin call.arg

\* the n-th configured folder is in its category, under its host path
Listed(n) ==
    \E k \in 1..Len(CategoryOf(call.out.val, n)) :
        CategoryOf(call.out.val, n)[k] = HostPrefixes(settings)[n]

\* C17: list_folders reports a configured folder, under the path the
\* client knows it by, if and only if it is an existing, accessible
\* directory.
C17_ListedIffAccessible ==
    (call.op = "list_folders" /\ ~Raised(call.out)) =>
        \A n \in 1..Len(InternalPrefixes(settings)) :
            InternalPrefixes(settings)[n] # <<>> => (Listed(n) <=> Accessible(n))

\* read_path_allowed has answered
ReadAnswered == call.op = "read_path_allowed" /\ ~Raised(call.out)

\* the directories the call went over, and whether the i-th was a directory
\* whose listing was refused
ScannedPaths == paths_to_scan_of(fs, cwd, settings, call.arg.path)
Refused(i) ==
    /\ i <= Len(call.arg.order)
    /\ Components(ScannedPaths[i]) \in DOMAIN fs
    /\ fs[Components(ScannedPaths[i])].kind = "dir"
    /\ call.arg.order[i] = IterdirDenied

\* the candidate files of the i-th directory, as the client is told them
CandidatesOf(i) ==
    IF Components(ScannedPaths[i]) \notin DOMAIN fs
       \/ fs[Components(ScannedPaths[i])].kind # "dir"
    THEN {}
    ELSE {to_host_path(fs, cwd, settings, ScannedPaths[i] \o <<Slash>> \o n).val :
            n \in {m \in Children(fs, Components(ScannedPaths[i])) :
                     /\ Path_is_file(fs, cwd, ScannedPaths[i] \o <<Slash>> \o m)
                     /\ lower_ext(m) \in allowed_extensions_list(settings)}}

\* C24: a directory whose listing is refused gives the structured error 103
\* and no file when it is the path that was asked for; when it is one of
\* the roots of a call without path it is passed over: no error is
\* answered, and the files answered are the candidate files of all the
\* other roots.
C24_RefusedListing ==
    ReadAnswered =>
        /\ (/\ call.arg.path # <<>>
            /\ is_path_allowed(fs, cwd, settings, call.arg.path) = Return(TRUE)
            /\ Refused(1))
               => /\ call.out.val.error_code = 103
                  /\ call.out.val.error # NoMsg
                  /\ call.out.val.files = <<>>
        /\ call.arg.path = <<>>
               => /\ call.out.val.error_code = 0
                  /\ {call.out.val.files[k] : k \in 1..Len(call.out.val.files)}
                       = UNION {CandidatesOf(i) :
                                  i \in {j \in 1..Len(ScannedPaths) : ~Refused(j)}}

\* C24 witness: with the roots "/a" and "/ab", the listing of "/a" was
\* refused and the document of "/ab" was answered all the same
C24_Witness ==
    /\ ReadAnswered
    /\ call.arg.path = <<>>
    /\ Len(ScannedPaths) = 2
    /\ Refused(1) /\ ~Refused(2)
    /\ Children(fs, <<A>>) # {}
    /\ Len(call.out.val.files) = 1

\* the n-th prefix of from is configured and contains the path: the path is
\* the prefix itself or the prefix followed by "/" and more
ContainedIn(path, from, n) ==
    /\ from[n] # <<>>
    /\ path = from[n] \/ StartsWith(path, from[n] \o <<Slash>>)

\* the prefixes of from that contain the path and are as long as any that does
LongestContaining(path, from) ==
    {n \in 1..Len(from) :
        /\ ContainedIn(path, from, n)
        /\ \A m \in 1..Len(from) :
               ContainedIn(path, from, m) => Len(from[m]) <= Len(from[n])}

\* C27: when configured prefixes apply to a path, the translation replaces
\* the longest one that contains the path, in both directions, also when
\* roots are nested or one root is a string prefix of another.
C27_LongestPrefixReplaced ==
    /\ (call.op = "to_host_path" /\ ~Raised(call.out)
         /\ LongestContaining(call.arg, InternalPrefixes(settings)) # {}) =>
            \E n \in LongestContaining(call.arg, InternalPrefixes(settings)) :
                call.out.val = Swapped(call.arg, InternalPrefixes(settings),
                                       HostPrefixes(settings), n)
    /\ (call.op = "to_internal_path" /\ ~Raised(call.out)
         /\ LongestContaining(call.arg, HostPrefixes(settings)) # {}) =>
            \E n \in LongestContaining(call.arg, HostPrefixes(settings)) :
                call.out.val = Swapped(call.arg, HostPrefixes(settings),
                                       InternalPrefixes(settings), n)

\* a client asked process_contract / read_path_allowed for the path outside
\* the roots, in one of the filesystems that differ only in what is there
AskedOutside(op) ==
    /\ call.op = op
    /\ call.arg.path = OutsidePath
    /\ fs \in OutsideFileSystems

\* C30: for a path outside every allowed root, the answer of
\* process_contract and of read_path_allowed (error code and message) is
\* the same whether nothing, a regular file, a directory or a symbolic link
\* is at that path: the answer given is the one every other such filesystem
\* gives.
C30_OutsideNotInferable ==
    /\ AskedOutside("process_contract") =>
           \A kind \in OutsideKinds :
               process_contract(WithOutside(fs, kind), cwd, settings, OutsidePath,
                                call.arg.doc.readable, call.arg.doc.reply) = call.out
    /\ AskedOutside("read_path_allowed") =>
           \A kind \in OutsideKinds :
               \A order \in ScanOrders(WithOutside(fs, kind), cwd,
                                       paths_to_scan_of(WithOutside(fs, kind), cwd,
                                                        settings, OutsidePath)) :
                   read_path_allowed(WithOutside(fs, kind), cwd, settings,
                                     OutsidePath, order) = call.out

----------------------------------------------------------------------------
(* Function properties (under SpecFunctions) *)

\* C15: normalize_date is idempotent: normalising the normalised date
\* gives the normalised date again, for None, the empty text, texts of
\* whitespace only, DD-MM-YYYY and DD/MM/YYYY texts, ISO texts and others.
C15_NormalizeDateIdempotent ==
    (call.op = "normalize_date" /\ ~Raised(call.out))
        => normalize_date(call.out.val) = call.out.val

\* get_valid_token has answered
TokenAsked == call.op = "get_valid_token" /\ call.out.exc.type = "none"

\* a token is stored, and it has no expires_at or one that is more than
\* five minutes after the current time
StoredAndFresh ==
    /\ call.arg.file.state = "json"
    /\ \/ "expires_at" \notin DOMAIN call.arg.file.token
       \/ call.arg.file.token.expires_at > call.arg.now + 5

\* C18: get_valid_token returns the stored token if and only if a token is
\* stored and it has no expires_at or an expires_at more than 5 minutes
\* after the current time; otherwise (nothing stored, expired, expiring
\* within 5 minutes) it returns None.
C18_ValidTokenIffFresh ==
    TokenAsked =>
        /\ StoredAndFresh <=> (call.arg.file.state = "json"
                               /\ call.out.val = call.arg.file.token)
        /\ ~StoredAndFresh => call.out.val = NoToken

\* C18 witness: a token that expires six minutes from now is returned
C18_Witness ==
    /\ TokenAsked
    /\ call.arg.file.state = "json"
    /\ "expires_at" \in DOMAIN call.arg.file.token
    /\ call.arg.file.token.expires_at = call.arg.now + 6
    /\ call.out.val = call.arg.file.token

\* the per-file handler has classified an exception
Classified == call.op = "per_file_handler" /\ call.out.exc.type = "none"

\* the message of the classified exception has the word, in any case
Says(word) == \E n \in 1..Len(call.arg.arg) : Lower(<<call.arg.arg[n]>>) = <<word>>

\* the code the order of the tests gives the classified exception
CodeInOrder ==
    IF call.arg.type = "LLMCancelledError" THEN 105
    ELSE IF Says("not found") \/ Says("no exist") \/ Says("not exist") THEN 104
    ELSE IF Says("not allowed") /\ Says("extension") THEN 102
    ELSE IF Says("not allowed") \/ Says("denied") THEN 103
    ELSE 100

\* C22: a failure caught by the per-file handler gets exactly one code, by
\* the tests in their order (cancellation or timeout 105; "not found",
\* "no exist", "not exist" 104; "not allowed" and "extension" 102; "not
\* allowed" or "denied" 103; otherwise 100), and the description recorded
\* with it is a defined one that no other of the five codes has.
C22_ClassifiedInOrder ==
    Classified =>
        /\ call.out.val.error_code = CodeInOrder
        /\ call.out.val.error_description # "Unknown error"
        /\ \A other \in {100, 102, 103, 104, 105} \ {CodeInOrder} :
               get_error_response(other).error_description
                   # call.out.val.error_description

\* the Ollama backend has been asked and the request has failed
OllamaFailed ==
    /\ call.op \in {"generate_json", "generate_text"}
    /\ call.out.exc.type \notin {"pending", "none"}

\* the kind of the error reported, by its type and, for the type that the
\* deadline and the cancellation share, by its message
ReportedKind ==
    CASE call.out.exc.type = "LLMCancelledError" /\ call.out.exc.id = "ollama_timed_out"
             -> "timeout"
      [] call.out.exc.type = "LLMCancelledError" /\ call.out.exc.id # "ollama_timed_out"
             -> "cancelled"
      [] call.out.exc.type = "ConnectError" -> "connection"
      [] call.out.exc.type = "ValueError" -> "provider"
      [] call.out.exc.type = "JSONDecodeError" -> "parse"
      [] OTHER -> "other"

\* the kind the cause of the failure has
KindOfCause ==
    CASE call.arg.cause = "deadline" -> "timeout"
      [] call.arg.cause = "unreachable" -> "connection"
      [] call.arg.cause = "cancelled" -> "cancelled"
      [] call.arg.cause = "status" -> "provider"
      [] OTHER -> "parse"

\* C23: the kind of error the Ollama backend reports is the kind of its
\* cause (deadline: timeout; unreachable: connection; request scope torn
\* down: cancelled; status other than 2xx: provider; content that is not
\* JSON: parse), so that a cancelled error is reported only for a
\* cancelled request scope.
C23_KindFollowsCause == OllamaFailed => ReportedKind = KindOfCause

\* _parse_with_llm was called with llm_mock enabled and has answered
MockExtraction ==
    /\ call.op = "parse_with_llm" /\ call.out.exc.type # "pending"
    /\ call.arg.st.llm_mock

\* the payload the mock backend gives for the prompts of this extraction
ExpectedPayload ==
    MockPayload(Contains(system_prompt_text, Sentinel)
                \/ Contains(user_content_of(call.arg.text), Sentinel))

\* C28: with llm_mock enabled the extraction is served by the mock backend
\* whatever llm_provider is: it does not fail, its result is the fixed
\* payload, and prompt_injection_detected is true exactly when the sentinel
\* INJECTION_TEST is in the system prompt or in the user content.
C28_MockServesExtraction ==
    MockExtraction =>
        /\ ~Raised(call.out)
        /\ \A k \in DOMAIN ExpectedPayload :
               /\ k \in DOMAIN call.out.val
               /\ call.out.val[k] = ExpectedPayload[k]

====
